---- MODULE Spec2Model ----
(***************************************************************************)
(* AlphaSolve: the Solver / Verifier / Refiner / Summarizer flow over the  *)
(* shared lemma list, as a state machine.                                  *)
(*                                                                         *)
(* One worker runs Flow.run(shared): the current node's prep, exec and     *)
(* post are three steps; post returns an action and the flow follows the   *)
(* node's successor for that action, or ends when there is none.  An       *)
(* exception raised inside a phase is not caught by Node or Flow           *)
(* (Node.exec_fallback re-raises), so it leaves Flow.run: phase "raised".  *)
(*                                                                         *)
(* Each handler is modelled from its own file.  The language model behind  *)
(* LLMClient.get_result is the environment: every call either raises       *)
(* (its retries are used up) or returns one of a small set of responses.   *)
(* Python tuples are sequences, None / a value is <<>> / <<value>>, a      *)
(* lemma id i is position i + 1 of the sequence lemmas.                    *)
(***************************************************************************)
EXTENDS Integers, Sequences, FiniteSets, TLC

VARIABLES
    flow,              \* the Flow built by _create_research_flow: start node, edges
    lemmas,            \* shared["lemmas"] (the lemma pool)
    pc,                \* per worker: node and phase Flow.run is about to execute
    current_lemma_id,  \* per worker: shared["current_lemma_id"]
    result_summary,    \* per worker: shared["result_summary"]
    prep_res,          \* per worker: what the node's prep returned
    exec_res,          \* per worker: what the node's exec returned
    last_action,       \* per worker: what the last post returned (Flow._orch)
    judged,            \* history: per worker, Verifier.post judgements of its current lemma
    yes_statements,    \* history: statements the theorem check answered yes for
    verify_trace,      \* history: per worker, the answers of the last Verifier.exec
    refine_trace,      \* history: per worker, the lemma Refiner.prep found and what exec got back
    conv,              \* one LLMClient.get_result call: its locals
    tool_context,      \* that call's tool_context: python_env, wolfram_session
    last_tool,         \* history: the last tool call dispatched and what it returned
    research,          \* one AlphaSolve.do_research call: its locals and futures
    shared,            \* one SharedContext object: its items and what the last operation did
    path,              \* one build_reasoning_path call: the list it reads, its locals, its result
    stream,            \* one streamed response: the tool-call deltas so far, tool_calls_acc
    appended,          \* history: per worker, where the append of its Solver.post landed
    hooks              \* the process-wide sys.stdout and import hooks, and each worker's run_python frame

\* the state that the nodes of the flow leave alone
outside_flow == <<conv, tool_context, last_tool, research, shared, path, stream, appended, hooks>>

vars == <<flow, lemmas, pc, current_lemma_id, result_summary, prep_res, exec_res,
          last_action, judged, yes_statements, verify_trace, refine_trace, conv,
          tool_context, last_tool, research, shared, path, stream, appended, hooks>>

-----------------------------------------------------------------------------
(* Configuration: AlphaSolveConfig.  The three quotas are scaled down.     *)

MAX_LEMMA_NUM == 2
MAX_VERIFY_AND_REFINE_ROUND == 1
VERIFIER_SCALING_FACTOR == 2

CONJECTURE_GENERATED == "conjecture_generated"
CONJECTURE_UNVERIFIED == "conjecture_unverified"
CONJECTURE_VERIFIED == "conjecture_verified"
DONE == "done"
REFINE_SUCCESS == "refined_success"
CONJECTURE_WRONG == "conjecture_wrong"
EXIT_ON_EXAUSTED == "exit_on_exausted"
EXIT_ON_ERROR == "exit_on_error"
EXIT_ON_FAILURE == "exit_on_failure"
NORMAL == "normal"
VERIFIER_EXAUSTED == "verifier_exausted"
SOLVER_EXAUSTED == "solver_exausted"

VERIFY_RESULT_VALID == "boxed{valid}"

(* Bounds of the exploration. *)
MaxProofLen == 4     \* longest short proof text a modify_proof call is tried on
MaxMarkerLen == 2    \* longest short marker a modify_proof call is tried with
MaxJudge == 2        \* Verifier.post judgements of one lemma that are explored
MaxHistory == 3      \* messages of a history followed in a run without end
SummaryLemmas == 3   \* longest lemma list the Summarizer is started on by itself

Workers == {"w1", "w2"}

None == <<>>
Some(x) == <<x>>
IsNone(o) == Len(o) = 0
Get(o) == o[1]

-----------------------------------------------------------------------------
(* What the language model can say. *)

Statements == {"s1", "s2"}
SolverProof == <<"a", "b">>
DependencyArrays == {<<>>, <<1, 0>>, <<-1, 3>>}

\* the Solver's final assistant message
SolverResponses ==
    {[kind |-> k, statement |-> "s1", proof |-> SolverProof, deps |-> <<>>] :
        k \in {"raise", "no_tags", "bad_json", "bad_deps"}}
    \cup {[kind |-> "ok", statement |-> s, proof |-> SolverProof, deps |-> d] :
            s \in Statements, d \in DependencyArrays}

\* the answer to the "fully addresses the problem" question
CheckResponses == {"Yes", "No", "Yes."}
StripLower(r) == CASE r = "Yes" -> "yes" [] r = "No" -> "no" [] OTHER -> "yes."

\* a Verifier answer is a text, here a sequence of words
Answers == {<<VERIFY_RESULT_VALID>>, <<"fine", VERIFY_RESULT_VALID>>,
            <<"step 3 wrong">>}
Contains(text, word) == \E i \in 1..Len(text) : text[i] = word

Message(role, calls) == [role |-> role, tool_calls |-> calls]

-----------------------------------------------------------------------------
(* shared_context.py *)

new_lemma(statement, proof, dependencies, is_theorem, status, history_messages, verify_round) ==
    [statement |-> statement, proof |-> proof, dependencies |-> dependencies,
     status |-> status, review |-> None, is_theorem |-> is_theorem,
     history_messages |-> history_messages, verify_round |-> verify_round]

\* validate_lemma: "ok" or the exception it raises.  built is None or
\* Some([deps_are_ints, lemma]); lemma_id is None or Some(id).
validate_lemma(built, lemma_id) ==
    IF IsNone(built) THEN "AttributeError"
    ELSE IF ~Get(built).deps_are_ints THEN "TypeError"
    ELSE IF Get(built).lemma.status \notin {"pending", "verified", "rejected"}
         THEN "ValueError"
    ELSE IF ~IsNone(lemma_id)
            /\ \E k \in 1..Len(Get(built).lemma.dependencies) :
                  Get(built).lemma.dependencies[k] >= Get(lemma_id)
         THEN "ValueError"
    ELSE "ok"

\* build_reasoning_path: dfs(i) run on the state [seen, out], dependency k first.
RECURSIVE dfs(_, _, _, _, _)
dfs(ls, verified_only, i, k, st) ==
    LET deps == ls[i + 1].dependencies IN
    IF k > Len(deps) THEN st
    ELSE LET d == deps[k] IN
         IF \/ d < 0 \/ d >= Len(ls)
            \/ d >= i
            \/ (verified_only /\ ls[d + 1].status # "verified")
            \/ d \in st.seen
         THEN dfs(ls, verified_only, i, k + 1, st)
         ELSE LET sub == dfs(ls, verified_only, d, 1,
                             [seen |-> st.seen \cup {d}, out |-> st.out])
              IN dfs(ls, verified_only, i, k + 1,
                     [seen |-> sub.seen, out |-> Append(sub.out, d)])

RECURSIVE reversed(_)
reversed(seq) == IF Len(seq) = 0 THEN <<>> ELSE Append(reversed(Tail(seq)), Head(seq))

reasoning_path_preorder(ls, lemma_id, verified_only) ==
    reversed(dfs(ls, verified_only, lemma_id, 1, [seen |-> {}, out |-> <<>>]).out)

build_reasoning_path(ls, lemma_id, verified_only) ==
    dfs(ls, verified_only, lemma_id, 1, [seen |-> {}, out |-> <<>>]).out

\* the process as it is before any run_python call: sys.stdout,
\* builtins.__import__ and importlib.import_module are the interpreter's own;
\* no worker is inside run_python (at = 0)
no_hooks ==
    [global |-> [stdout |-> "original", import |-> "original",
                 import_module |-> "original"],
     frame |-> [w \in Workers |->
                   [at |-> 0,
                    saved |-> [stdout |-> "original", import |-> "original",
                               import_module |-> "original"]]],
     calls |-> 0]

\* no response is being streamed
no_stream == [deltas |-> <<>>, tool_calls_acc |-> <<>>]

\* no build_reasoning_path call is being followed
no_path ==
    [phase |-> "idle", lemmas |-> <<>>, lemma_id |-> 0, verified_only |-> TRUE,
     stack |-> <<>>, seen |-> {}, out |-> <<>>]

\* class SharedContext(dict).  Values are written as opaque tokens.
FIXED_KEYS ==
    {"problem", "hint", "solver_round_remaining", "verify_refine_round_remaining",
     "lemmas", "current_lemma_id", "result_summary", "messages_for_refiner"}

\* what an operation leaves: the dict's items, the _frozen flag, and the
\* exception it raised, if any
Outcome(items, frozen, raised) == [items |-> items, frozen |-> frozen, raised |-> raised]

\* SharedContext.__init__: the object as constructed, no operation made yet
SharedContext ==
    [items |-> [k \in FIXED_KEYS |->
                  CASE k \in {"problem", "solver_round_remaining",
                              "verify_refine_round_remaining"} -> k
                    [] k \in {"lemmas", "messages_for_refiner"} -> "[]"
                    [] OTHER -> "None"],
     frozen |-> TRUE, raised |-> None, op |-> "__init__", keys |-> {},
     before |-> <<>>, was_frozen |-> FALSE, thawed |-> FALSE]

\* bool(value)
Truthy(value) == value \notin {"None", "False", "[]"}

\* dict.__setitem__
Stored(items, key, value) ==
    [k \in DOMAIN items \cup {key} |-> IF k = key THEN value ELSE items[k]]

__setitem__(self, key, value) ==
    IF self.frozen /\ key \notin DOMAIN self.items
    THEN Outcome(self.items, self.frozen, Some("KeyError"))
    ELSE Outcome(Stored(self.items, key, value), self.frozen, None)

\* __delitem__, pop, popitem, clear and setdefault
forbidden(self) == Outcome(self.items, self.frozen, Some("KeyError"))

\* update: every key of data is checked before any is written
update_as_it_goes(self, data) ==
    IF \E k \in DOMAIN data : k \notin DOMAIN self.items
    THEN Outcome([k \in DOMAIN self.items |->
                     IF k \in DOMAIN data THEN data[k] ELSE self.items[k]],
                 self.frozen, Some("KeyError"))
    ELSE Outcome([k \in DOMAIN self.items |->
                     IF k \in DOMAIN data THEN data[k] ELSE self.items[k]],
                 self.frozen, None)

update(self, data) ==
    IF \E k \in DOMAIN data : k \notin DOMAIN self.items
    THEN Outcome(self.items, self.frozen, Some("KeyError"))
    ELSE Outcome([k \in DOMAIN self.items |->
                     IF k \in DOMAIN data THEN data[k] ELSE self.items[k]],
                 self.frozen, None)

__setattr__(self, name, value) ==
    IF name = "_frozen" THEN Outcome(self.items, Truthy(value), None)
    ELSE IF name \in DOMAIN self.items THEN __setitem__(self, name, value)
    ELSE Outcome(self.items, self.frozen, Some("AttributeError"))

-----------------------------------------------------------------------------
(* llms/utils.py, llms/tools.py: one get_result call and its tool context. *)

\* no get_result call is being followed
no_conversation ==
    [phase |-> "idle", caller_messages |-> <<>>, base_messages |-> <<>>,
     messages |-> <<>>, attempt |-> 0, iteration |-> 0, last_exc |-> None,
     todo |-> <<>>]
no_tool_context ==
    [python_env |-> <<>>, wolfram_session |-> None, started |-> 0, alive |-> {}]

\* no do_research call is being followed
no_research ==
    [phase |-> "idle", iteration_num |-> 0, k |-> 0, futures |-> <<>>,
     completed |-> <<>>, finished |-> 0, data |-> None, log |-> <<>>]

\* a python_env is a function from variable names to values
Bind(env, key, val) ==
    [k \in DOMAIN env \cup {key} |-> IF k = key THEN val ELSE env[k]]

\* a code string, as the statements it runs: x = v, a loop that never ends, a raise
Assign(key, val) == [op |-> "assign", key |-> key, val |-> val]
Loop == [op |-> "loop", key |-> "", val |-> 0]
RaiseStmt == [op |-> "raise", key |-> "", val |-> 0]

\* exec(code, env, env): the env when execution stops, and why it stopped
RECURSIVE exec_code(_, _)
exec_code(code, env) ==
    IF Len(code) = 0 THEN [env |-> env, stopped |-> "end"]
    ELSE CASE Head(code).op = "assign" ->
                 exec_code(Tail(code), Bind(env, Head(code).key, Head(code).val))
           [] Head(code).op = "loop" -> [env |-> env, stopped |-> "TimeoutError"]
           [] OTHER -> [env |-> env, stopped |-> "Exception"]

\* a rollback that only removes the keys the call added
rollback_added_keys(env, env_snapshot) ==
    [k \in DOMAIN env \cap DOMAIN env_snapshot |-> env[k]]

\* run_python's rollback on timeout: pop the keys that are not in the snapshot,
\* then write every item of the snapshot back
rollback(env, env_snapshot) ==
    LET popped == [k \in DOMAIN env \cap DOMAIN env_snapshot |-> env[k]]
    IN [k \in DOMAIN popped \cup DOMAIN env_snapshot |->
           IF k \in DOMAIN env_snapshot THEN env_snapshot[k] ELSE popped[k]]

\* run_python(code, env): (stdout, error) and the env it leaves.  The entry
\* __builtins__ is set before the snapshot is taken.
run_python(code, env) ==
    LET prepared == Bind(env, "__builtins__", 0)
        env_snapshot == prepared
        ran == exec_code(code, prepared)
    IN CASE ran.stopped = "TimeoutError" ->
               [stdout |-> "", error |-> Some("timeout"),
                env |-> rollback(ran.env, env_snapshot)]
         [] ran.stopped = "Exception" ->
               [stdout |-> "", error |-> Some("Traceback"), env |-> ran.env]
         [] OTHER -> [stdout |-> "", error |-> None, env |-> ran.env]

-----------------------------------------------------------------------------
(* workflow.py: the flow graph, and pocketflow's Flow.run. *)

Edge(from, action, to) == [from |-> from, action |-> action, to |-> to]

\* the flow without the Refiner's CONJECTURE_WRONG edge
flow_without_conjecture_wrong ==
    [start |-> "Solver",
     successors |->
        {Edge("Solver", CONJECTURE_GENERATED, "Verifier"),
         Edge("Solver", EXIT_ON_ERROR, "Solver"),
         Edge("Solver", EXIT_ON_EXAUSTED, "Summarizer"),
         Edge("Verifier", CONJECTURE_UNVERIFIED, "Refiner"),
         Edge("Verifier", CONJECTURE_VERIFIED, "Solver"),
         Edge("Verifier", DONE, "Summarizer"),
         Edge("Refiner", EXIT_ON_EXAUSTED, "Solver"),
         Edge("Refiner", REFINE_SUCCESS, "Verifier"),
         Edge("Refiner", EXIT_ON_ERROR, "Refiner")}]

\* the flow with the Verifier's DONE edge leading back to the Solver
flow_done_to_solver ==
    [start |-> "Solver",
     successors |->
        (flow_without_conjecture_wrong.successors
            \ {Edge("Verifier", DONE, "Summarizer")})
        \cup {Edge("Refiner", CONJECTURE_WRONG, "Solver"),
              Edge("Verifier", DONE, "Solver")}]

\* the flow with the Refiner's REFINE_SUCCESS edge leading to the Solver
flow_refined_to_solver ==
    [start |-> "Solver",
     successors |->
        (flow_without_conjecture_wrong.successors
            \ {Edge("Refiner", REFINE_SUCCESS, "Verifier")})
        \cup {Edge("Refiner", CONJECTURE_WRONG, "Solver"),
              Edge("Refiner", REFINE_SUCCESS, "Solver")}]

create_research_flow ==
    [start |-> "Solver",
     successors |->
        {Edge("Solver", CONJECTURE_GENERATED, "Verifier"),
         Edge("Solver", EXIT_ON_ERROR, "Solver"),
         Edge("Solver", EXIT_ON_EXAUSTED, "Summarizer"),
         Edge("Verifier", CONJECTURE_UNVERIFIED, "Refiner"),
         Edge("Verifier", CONJECTURE_VERIFIED, "Solver"),
         Edge("Verifier", DONE, "Summarizer"),
         Edge("Refiner", EXIT_ON_EXAUSTED, "Solver"),
         Edge("Refiner", REFINE_SUCCESS, "Verifier"),
         Edge("Refiner", CONJECTURE_WRONG, "Solver"),
         Edge("Refiner", EXIT_ON_ERROR, "Refiner")}]

At(w, node, phase) == pc[w].node = node /\ pc[w].phase = phase
Goto(w, node, phase) == pc' = [pc EXCEPT ![w] = [node |-> node, phase |-> phase]]

\* the exception leaves Flow.run
Raise(w) == Goto(w, pc[w].node, "raised")
RaiseInPost(w) == Raise(w) /\ UNCHANGED <<prep_res, exec_res, last_action>>

\* Flow.get_next_node after post returned action: the successor, or the flow ends
\* (prep_res and exec_res are locals of Node._run, gone when it returns)
FollowEdge(w, action) ==
    /\ last_action' = [last_action EXCEPT ![w] = action]
    /\ prep_res' = [prep_res EXCEPT ![w] = <<>>]
    /\ exec_res' = [exec_res EXCEPT ![w] = <<>>]
    /\ LET next == {e \in flow.successors : e.from = pc[w].node /\ e.action = action}
       IN IF next = {} THEN Goto(w, pc[w].node, "ended")
          ELSE \E e \in next : Goto(w, e.to, "prep")

-----------------------------------------------------------------------------
(* agents/solver.py *)

remaining_rounds(ls, max_lemma_num) == max_lemma_num - Len(ls)

_quota_is_exhausted(ls) == remaining_rounds(ls, MAX_LEMMA_NUM) <= 0

\* a lemma as a prompt shows it: the number in its heading and its statement;
\* lemma_id remembers which lemma of the list it is
Shown(label, statement, lemma_id) ==
    [label |-> label, statement |-> statement, lemma_id |-> lemma_id]

all_lemmas(ls) == [p \in 1..Len(ls) |-> p - 1]

\* Solver.prep: [l for l in shared["lemmas"] if l.get("status") == "verified"],
\* as the ids of the lemmas chosen
verified_lemmas(ls) ==
    SelectSeq([p \in 1..Len(ls) |-> p - 1], LAMBDA id : ls[id + 1].status = "verified")

\* __build_solver_prompt: the context section, " ** Lemma-{i} **" with i the
\* position in verified_lemmas
build_solver_prompt(ls, chosen) ==
    [i \in 1..Len(chosen) |-> Shown(i - 1, ls[chosen[i] + 1].statement, chosen[i])]

\* Solver.prep where AlphaSolveConfig.MAX_LEMMA_NUM is max_lemma_num
Solver_prep_under(w, max_lemma_num) ==
    /\ At(w, "Solver", "prep")
    /\ prep_res' = [prep_res EXCEPT ![w] =
            IF remaining_rounds(lemmas, max_lemma_num) <= 0
            THEN <<SOLVER_EXAUSTED, None>>
            ELSE <<NORMAL, build_solver_prompt(lemmas, verified_lemmas(lemmas)),
                   "shared">>]
    /\ Goto(w, "Solver", "exec")
    /\ refine_trace' = [refine_trace EXCEPT ![w] = None]
    /\ UNCHANGED <<outside_flow, flow, lemmas, current_lemma_id, result_summary, exec_res,
                   last_action, judged, yes_statements, verify_trace>>

Solver_prep(w) == Solver_prep_under(w, MAX_LEMMA_NUM)

_valid_prep_res(p) == ~(Len(p) = 0 \/ Len(p) < 3)

\* __build_lemma on the model's final message: None, or the lemma it describes
build_lemma(r) ==
    IF r.kind = "no_tags" THEN None
    ELSE Some([deps_are_ints |-> r.kind # "bad_deps",
               lemma |-> new_lemma(r.statement, r.proof, r.deps, FALSE, "pending",
                                   <<Message("system", <<>>), Message("user", <<>>),
                                     Message("assistant", <<>>)>>, 0)])

Solver_exec(w) ==
    /\ At(w, "Solver", "exec")
    /\ IF ~_valid_prep_res(prep_res[w])
       THEN /\ exec_res' = [exec_res EXCEPT ![w] = <<EXIT_ON_ERROR, None, None, None>>]
            /\ Goto(w, "Solver", "post")
       ELSE IF prep_res[w][1] = SOLVER_EXAUSTED
       THEN /\ exec_res' = [exec_res EXCEPT ![w] =
                                <<EXIT_ON_EXAUSTED, None, None, None>>]
            /\ Goto(w, "Solver", "post")
       ELSE \E r \in SolverResponses :
              IF r.kind \in {"raise", "bad_json"}
              THEN Raise(w) /\ UNCHANGED exec_res
              ELSE /\ exec_res' = [exec_res EXCEPT ![w] =
                          <<CONJECTURE_GENERATED, build_lemma(r), "updated_messages">>]
                   /\ Goto(w, "Solver", "post")
    /\ UNCHANGED <<outside_flow, refine_trace, flow, lemmas, current_lemma_id,
                   result_summary, prep_res,
                   last_action, judged, yes_statements, verify_trace>>

_valid_exec_res(e) == ~(Len(e) = 0)

\* ids that are not the appended lemma's: always the first lemma, the one before it
first_lemma_id(ls) == 0
previous_lemma_id(ls) == IF Len(ls) > 1 THEN Len(ls) - 2 ELSE 0

\* the id Solver.post gives the lemma it has just appended to ls
appended_lemma_id(ls) == Len(ls) - 1

Solver_post(w) ==
    /\ At(w, "Solver", "post")
    /\ IF ~_valid_exec_res(exec_res[w])
       THEN /\ FollowEdge(w, EXIT_ON_ERROR)
            /\ UNCHANGED <<lemmas, current_lemma_id, judged, yes_statements>>
       ELSE IF exec_res[w][1] = EXIT_ON_EXAUSTED
       THEN /\ FollowEdge(w, EXIT_ON_EXAUSTED)
            /\ UNCHANGED <<lemmas, current_lemma_id, judged, yes_statements>>
       ELSE IF validate_lemma(exec_res[w][2], None) # "ok"
       THEN /\ RaiseInPost(w)
            /\ UNCHANGED <<lemmas, current_lemma_id, judged, yes_statements>>
       ELSE LET lemma == Get(exec_res[w][2]).lemma IN
            \E c \in CheckResponses \cup {"raise"} :
              IF c = "raise"
              THEN /\ RaiseInPost(w)
                   /\ UNCHANGED <<lemmas, current_lemma_id, judged, yes_statements>>
              ELSE /\ lemmas' = Append(lemmas,
                          [lemma EXCEPT !.is_theorem = (StripLower(c) = "yes")])
                   /\ current_lemma_id' = [current_lemma_id EXCEPT ![w] =
                          Some(appended_lemma_id(lemmas'))]
                   /\ judged' = [judged EXCEPT ![w] = 0]
                   /\ yes_statements' =
                          IF StripLower(c) = "yes"
                          THEN yes_statements \cup {lemma.statement}
                          ELSE yes_statements
                   /\ FollowEdge(w, CONJECTURE_GENERATED)
    /\ UNCHANGED <<outside_flow, refine_trace, flow, result_summary, verify_trace>>

-----------------------------------------------------------------------------
(* agents/verifier.py *)

\* __render_context: " ** Conjecture-{i} **" and the statement of each context
\* lemma (empty: no context)
render_context(ctx_ids, ls) ==
    [k \in 1..Len(ctx_ids) |-> Shown(k - 1, ls[ctx_ids[k] + 1].statement, ctx_ids[k])]

Verifier_prep(w) ==
    /\ At(w, "Verifier", "prep")
    /\ prep_res' = [prep_res EXCEPT ![w] =
            IF IsNone(current_lemma_id[w]) THEN <<EXIT_ON_ERROR, None>>
            ELSE LET lemma_id == Get(current_lemma_id[w]) IN
                 <<NORMAL, lemma_id, "lemma",
                   render_context(build_reasoning_path(lemmas, lemma_id, TRUE), lemmas)>>]
    /\ Goto(w, "Verifier", "exec")
    /\ refine_trace' = [refine_trace EXCEPT ![w] = None]
    /\ UNCHANGED <<outside_flow, flow, lemmas, current_lemma_id, result_summary, exec_res,
                   last_action, judged, yes_statements, verify_trace>>

\* what one get_result call of the Verifier does
VerifierResponses ==
    {[raises |-> FALSE, answer |-> a] : a \in Answers}
    \cup {[raises |-> TRUE, answer |-> <<>>]}

\* an answer counted valid only when it is boxed{valid} and nothing else
verify_exact(answer) ==
    IF answer = <<VERIFY_RESULT_VALID>> THEN <<TRUE, answer, "cot">>
    ELSE <<FALSE, answer, "cot">>

\* __verify on the model's answer: (is_valid, review, cot)
verify(answer) ==
    IF Contains(answer, VERIFY_RESULT_VALID) THEN <<TRUE, answer, "cot">>
    ELSE <<FALSE, answer, "cot">>

\* the scaling loop of Verifier.exec from try i on; resps[i] is the model's
\* response to try i; st = [result, verifier_res, trace, raised]
RECURSIVE scaling_loop(_, _, _)
scaling_loop(resps, i, st) ==
    IF i > VERIFIER_SCALING_FACTOR THEN st
    ELSE IF resps[i].raises THEN [st EXCEPT !.raised = TRUE]
    ELSE LET v == verify(resps[i].answer)
             made == [st EXCEPT !.trace = Append(@, resps[i].answer)]
         IN IF ~v[1] THEN [made EXCEPT !.result = Append(@, v)]
            ELSE scaling_loop(resps, i + 1, [made EXCEPT !.verifier_res = v])

Verifier_exec(w) ==
    /\ At(w, "Verifier", "exec")
    /\ IF Len(prep_res[w]) < 4 \/ prep_res[w][1] # NORMAL
       THEN /\ exec_res' = [exec_res EXCEPT ![w] = <<EXIT_ON_ERROR, None>>]
            /\ Goto(w, "Verifier", "post")
            /\ UNCHANGED verify_trace
       ELSE \E resps \in [1..VERIFIER_SCALING_FACTOR -> VerifierResponses] :
            LET lemma_id == prep_res[w][2]
                st == scaling_loop(resps, 1, [result |-> <<>>, verifier_res |-> <<>>,
                                              trace |-> <<>>, raised |-> FALSE])
            IN /\ verify_trace' = [verify_trace EXCEPT ![w] = st.trace]
               /\ IF st.raised
                  THEN Raise(w) /\ UNCHANGED exec_res
                  ELSE IF Len(st.result) > 0
                  THEN \E index \in (IF Len(st.result) > 1 THEN 0..Len(st.result)
                                     ELSE {0}) :
                         IF index >= Len(st.result)
                         THEN Raise(w) /\ UNCHANGED exec_res
                         ELSE /\ exec_res' = [exec_res EXCEPT ![w] =
                                    <<NORMAL, lemma_id>> \o st.result[index + 1]]
                              /\ Goto(w, "Verifier", "post")
                  ELSE /\ exec_res' = [exec_res EXCEPT ![w] =
                             <<NORMAL, lemma_id>> \o st.verifier_res]
                       /\ Goto(w, "Verifier", "post")
    /\ UNCHANGED <<outside_flow, refine_trace, flow, lemmas, current_lemma_id,
                   result_summary, prep_res,
                   last_action, judged, yes_statements>>

\* Verifier.post; the history counter judged either counts this verdict, as
\* far as MaxJudge, or is left alone
Verifier_post_judging(w, counted) ==
    /\ At(w, "Verifier", "post")
    /\ IF Len(exec_res[w]) < 5 \/ exec_res[w][1] # NORMAL
       THEN /\ FollowEdge(w, EXIT_ON_ERROR)
            /\ UNCHANGED <<lemmas, judged>>
       ELSE LET lemma_id == exec_res[w][2]
                is_valid == exec_res[w][3]
                review == exec_res[w][4]
                lemma == lemmas[lemma_id + 1]
            IN /\ counted => judged[w] < MaxJudge
               /\ judged' = [judged EXCEPT ![w] = IF counted THEN @ + 1 ELSE @]
               /\ IF is_valid
                  THEN /\ lemmas' = [lemmas EXCEPT ![lemma_id + 1] =
                              [lemma EXCEPT !.status = "verified",
                                            !.review = Some(review)]]
                       /\ IF lemma.is_theorem THEN FollowEdge(w, DONE)
                          ELSE FollowEdge(w, CONJECTURE_VERIFIED)
                  ELSE /\ lemmas' = [lemmas EXCEPT ![lemma_id + 1] =
                              [lemma EXCEPT !.status = "pending",
                                            !.review = Some(review)]]
                       /\ FollowEdge(w, CONJECTURE_UNVERIFIED)
    /\ verify_trace' = [verify_trace EXCEPT ![w] = <<>>]
    /\ UNCHANGED <<outside_flow, refine_trace, flow, current_lemma_id, result_summary, yes_statements>>

Verifier_post(w) == Verifier_post_judging(w, TRUE)

-----------------------------------------------------------------------------
(* llms/tools.py and llms/utils.py: the editing tools a conversation can call. *)

\* str.find(pat, start): the first index >= start where pat occurs, else -1
\* (indices from 0; a text is a sequence of characters)
Find(text, pat, start) ==
    LET hits == {i \in start..(Len(text) - Len(pat)) :
                    \A k \in 1..Len(pat) : text[i + k] = pat[k]}
    IN IF hits = {} THEN -1 ELSE CHOOSE i \in hits : \A j \in hits : i <= j

Slice(text, from, to) == [k \in 1..(to - from) |-> text[from + k]]

\* what a tool returns to the model: a kind, its words, the lemma ids it lists
ToolContent(kind, text, ids) == [kind |-> kind, text |-> text, ids |-> ids]

\* the lemma after the call, and the string the call returns
Edited(lemma, result) == [lemma |-> lemma, result |-> result]

apply_new_statement_to_lemma(lemma, new_statement) ==
    IF new_statement = ""
    THEN Edited(lemma, ToolContent("error",
                    <<"new_statement must be a non-empty string">>, <<>>))
    ELSE Edited([lemma EXCEPT !.statement = new_statement],
                ToolContent("updated", <<new_statement>>, <<>>))

MARKER_MAX_LEN == 100

\* marker.strip() is empty
Blank(marker) == \A i \in 1..Len(marker) : marker[i] = " "

\* an edit that takes the last occurrence of the end marker
proof_anchor_edit_to_last_end(lemma, begin_marker, end_marker, proof_replacement) ==
    LET proof == lemma.proof
        start_idx == Find(proof, begin_marker, 0)
        ends == {i \in (start_idx + Len(begin_marker))..(Len(proof) - Len(end_marker)) :
                    \A k \in 1..Len(end_marker) : proof[i + k] = end_marker[k]}
        end_idx == CHOOSE i \in ends : \A j \in ends : j <= i
    IN IF Blank(begin_marker) \/ Blank(end_marker) \/ start_idx = -1 \/ ends = {}
          \/ Len(begin_marker) > MARKER_MAX_LEN \/ Len(end_marker) > MARKER_MAX_LEN
       THEN Edited(lemma, ToolContent("error", <<"edit refused">>, <<>>))
       ELSE Edited([lemma EXCEPT !.proof =
                       Slice(proof, 0, start_idx) \o proof_replacement
                       \o Slice(proof, end_idx + Len(end_marker), Len(proof))],
                   ToolContent("updated", <<"Updated successfully">>, <<>>))

apply_proof_anchor_edit(lemma, begin_marker, end_marker, proof_replacement) ==
    LET proof == lemma.proof
        start_idx == Find(proof, begin_marker, 0)
        end_idx == Find(proof, end_marker, start_idx + Len(begin_marker))
    IN IF Blank(begin_marker) \/ Blank(end_marker)
       THEN Edited(lemma, ToolContent("error",
                <<"Both begin_marker and end_marker must be provided">>, <<>>))
       ELSE IF Len(begin_marker) > MARKER_MAX_LEN \/ Len(end_marker) > MARKER_MAX_LEN
       THEN Edited(lemma, ToolContent("error",
                <<"Markers must be 100 characters or fewer">>, <<>>))
       ELSE IF start_idx = -1
       THEN Edited(lemma, ToolContent("error",
                <<"begin_marker not found in proof text">>, <<>>))
       ELSE IF end_idx = -1
       THEN Edited(lemma, ToolContent("error",
                <<"end_marker not found after begin_marker">>, <<>>))
       ELSE Edited([lemma EXCEPT !.proof =
                       Slice(proof, 0, start_idx) \o proof_replacement
                       \o Slice(proof, end_idx + Len(end_marker), Len(proof))],
                   ToolContent("updated", <<"Updated successfully">>, <<>>))

\* the arguments of a tool call as the model wrote them: a JSON object with these
\* keys, a JSON value that is no object ("array"), or text no candidate decodes
ToolArgs(decodes, code, lemma_id, new_statement, begin_marker, end_marker) ==
    [decodes |-> decodes, code |-> code, lemma_id |-> lemma_id,
     new_statement |-> new_statement, begin_marker |-> begin_marker,
     end_marker |-> end_marker, proof_replacement |-> <<"c">>]

\* a JSON value given as lemma_id: its JSON type and, for numbers and booleans,
\* the integer Python compares and indexes with (true is 1)
JsonValue(type, val) == [type |-> type, val |-> val]
IsInstanceInt(v) == v.type \in {"integer", "boolean"}

\* _parse_tool_arguments: the lemma it adds to the arguments of an editing call
injected_lemma(ls, cur) ==
    IF ~IsNone(cur) /\ 0 <= Get(cur) /\ Get(cur) < Len(ls) THEN cur ELSE None

\* _start_wolfram_session: success is up to the machine.  Sessions are numbered
\* in the order they start; alive holds those started and not terminated.
start_wolfram_session(ctx, ok) ==
    IF ok THEN [ctx EXCEPT !.wolfram_session = Some(ctx.started + 1),
                           !.started = ctx.started + 1,
                           !.alive = ctx.alive \cup {ctx.started + 1}]
    ELSE [ctx EXCEPT !.wolfram_session = None]

\* _init_tool_context for a tool list that holds run_wolfram
_init_tool_context(ok) == start_wolfram_session(no_tool_context, ok)

\* run_wolfram on ctx's session: how the evaluation goes is up to the kernel
run_wolfram(ctx, outcome) ==
    LET session == Get(ctx.wolfram_session) IN
    CASE outcome = "output" -> [output |-> "result", error |-> None, context |-> ctx]
      [] outcome = "error" -> [output |-> "", error |-> Some("Traceback"), context |-> ctx]
      [] outcome = "timeout" ->
            [output |-> "", error |-> Some("timeout"),
             context |-> [ctx EXCEPT !.alive = ctx.alive \ {session}]]
      [] OTHER -> [output |-> "", error |-> Some("timeout (failed to terminate)"),
                   context |-> ctx]

\* a dispatch that never restarts the session
no_restart(error) == FALSE

\* error.startswith('timeout')
StartsWithTimeout(error) ==
    ~IsNone(error) /\ Get(error) \in {"timeout", "timeout (failed to terminate)"}

\* the read_lemma branch of _execute_tool
read_lemma(lemma_id, ls) ==
    IF ~IsInstanceInt(lemma_id)
    THEN ToolContent("error", <<"lemma_id must be an integer">>, <<>>)
    ELSE IF Len(ls) = 0
    THEN ToolContent("error", <<"Currently no existing lemmas!">>, <<>>)
    ELSE IF lemma_id.val < 0 \/ lemma_id.val >= Len(ls)
    THEN ToolContent("error", <<"lemma_id out of range">>, <<>>)
    ELSE LET lemma == ls[lemma_id.val + 1] IN
         IF lemma.status # "verified"
         THEN ToolContent("warning", <<"Reading this lemma is prohibited.">>,
                          SelectSeq([i \in 1..Len(ls) |-> i - 1],
                                    LAMBDA i : ls[i + 1].status = "verified"))
         ELSE ToolContent("lemma", <<lemma.statement>> \o lemma.proof,
                          <<lemma_id.val>>)

\* what _execute_tool leaves: the tool message's content, the context, the lemmas;
\* or an exception
Executed(content, ctx, ls) ==
    [raised |-> FALSE, content |-> content, context |-> ctx, lemmas |-> ls]
ExecuteRaised(ctx, ls) ==
    [raised |-> TRUE, content |-> ToolContent("none", <<>>, <<>>), context |-> ctx,
     lemmas |-> ls]

\* _execute_tool(name, args, context); world is what the machine does during
\* the call: [wolfram, start_ok, restart_ok]
_execute_tool(name, args, ctx, ls, cur, world) ==
    IF name \in {"run_python", "run_wolfram", "modify_statement", "modify_proof",
                 "read_lemma"} /\ args.decodes = "array"
    THEN ExecuteRaised(ctx, ls)
    ELSE
    CASE name = "run_python" ->
            LET r == run_python(args.code, ctx.python_env) IN
            Executed(IF IsNone(r.error) THEN ToolContent("stdout", <<r.stdout>>, <<>>)
                     ELSE ToolContent("error", <<Get(r.error)>>, <<>>),
                     [ctx EXCEPT !.python_env = r.env], ls)
      [] name = "run_wolfram" ->
            LET have == IF IsNone(ctx.wolfram_session)
                        THEN start_wolfram_session(ctx, world.start_ok) ELSE ctx
            IN IF IsNone(have.wolfram_session)
               THEN Executed(ToolContent("error", <<"Wolfram session not available">>,
                                         <<>>), have, ls)
               ELSE LET r == run_wolfram(have, world.wolfram)
                        after == IF StartsWithTimeout(r.error)
                                 THEN start_wolfram_session(r.context, world.restart_ok)
                                 ELSE r.context
                    IN Executed(IF IsNone(r.error)
                                THEN ToolContent("output", <<r.output>>, <<>>)
                                ELSE ToolContent("error", <<Get(r.error)>>, <<>>),
                                after, ls)
      [] name \in {"modify_statement", "modify_proof"} ->
            LET lemma == injected_lemma(ls, cur) IN
            IF IsNone(lemma)
            THEN Executed(ToolContent("error", <<"No lemma provided">>, <<>>), ctx, ls)
            ELSE LET ed == IF name = "modify_statement"
                           THEN apply_new_statement_to_lemma(ls[Get(lemma) + 1],
                                                             args.new_statement)
                           ELSE apply_proof_anchor_edit(ls[Get(lemma) + 1],
                                    args.begin_marker, args.end_marker,
                                    args.proof_replacement)
                 IN Executed(ed.result, ctx, [ls EXCEPT ![Get(lemma) + 1] = ed.lemma])
      [] name = "read_lemma" -> Executed(read_lemma(args.lemma_id, ls), ctx, ls)
      [] OTHER -> Executed(ToolContent("error", <<"tool not implemented in client">>,
                                       <<>>), ctx, ls)

\* a tool call of the model: its name and arguments
ToolCall(name, new_statement, end_marker) ==
    [name |-> name, new_statement |-> new_statement, begin_marker |-> <<"a">>,
     end_marker |-> end_marker, proof_replacement |-> <<"c">>]

ToolCalls ==
    {ToolCall("modify_statement", s, <<>>) : s \in {"s2", ""}}
    \cup {ToolCall("modify_proof", "", m) : m \in {<<"b">>, <<"z">>}}
    \cup {ToolCall("apply_diff", "", <<>>)}

\* _execute_tool on the current lemma
execute_tool(lemma, tc) ==
    CASE tc.name = "modify_statement" ->
            apply_new_statement_to_lemma(lemma, tc.new_statement).lemma
      [] tc.name = "modify_proof" ->
            apply_proof_anchor_edit(lemma, tc.begin_marker, tc.end_marker,
                                    tc.proof_replacement).lemma
      [] OTHER -> lemma

RECURSIVE execute_tools(_, _)
execute_tools(lemma, calls) ==
    IF Len(calls) = 0 THEN lemma
    ELSE execute_tools(execute_tool(lemma, Head(calls)), Tail(calls))

\* the messages get_result appends to its input: per tool call the assistant
\* message that carries it and the tool message, then the final answer
RECURSIVE transcript(_)
transcript(calls) ==
    IF Len(calls) = 0 THEN <<Message("assistant", <<>>)>>
    ELSE <<Message("assistant", <<Head(calls).name>>), Message("tool", <<>>)>>
         \o transcript(Tail(calls))

\* the tool calls of one Refiner conversation, in order: none, or one
Conversations == {<<>>} \cup {<<tc>> : tc \in ToolCalls}

-----------------------------------------------------------------------------
(* agents/with_history_refiner.py *)

Refiner_prep(w) ==
    /\ At(w, "Refiner", "prep")
    /\ prep_res' = [prep_res EXCEPT ![w] =
            IF IsNone(current_lemma_id[w]) THEN <<EXIT_ON_ERROR, None>>
            ELSE LET lemma_id == Get(current_lemma_id[w]) IN
                 IF lemmas[lemma_id + 1].verify_round >= MAX_VERIFY_AND_REFINE_ROUND
                 THEN <<VERIFIER_EXAUSTED, lemma_id, None, None>>
                 ELSE <<NORMAL, lemma_id, "shared">>]
    /\ Goto(w, "Refiner", "exec")
    /\ refine_trace' = [refine_trace EXCEPT ![w] =
            IF IsNone(current_lemma_id[w]) THEN None
            ELSE Some([lemma |-> lemmas[Get(current_lemma_id[w]) + 1],
                       new_messages |-> <<>>])]
    /\ UNCHANGED <<outside_flow, flow, lemmas, current_lemma_id, result_summary, exec_res,
                   last_action, judged, yes_statements, verify_trace>>

\* the scan of the new messages for a tool call named apply_diff
used_apply_diff(new_messages) ==
    \E m \in 1..Len(new_messages) :
        /\ new_messages[m].role = "assistant"
        /\ \E c \in 1..Len(new_messages[m].tool_calls) :
               new_messages[m].tool_calls[c] = "apply_diff"

\* the last MaxHistory messages of a history
Recent(history) ==
    IF Len(history) <= MaxHistory THEN history
    ELSE SubSeq(history, Len(history) - MaxHistory + 1, Len(history))

\* Refiner.exec with the model's conversation among conversations; with
\* recent_only the lemma's history is followed as its last MaxHistory messages
Refiner_exec_with(w, conversations, recent_only) ==
    /\ At(w, "Refiner", "exec")
    /\ IF prep_res[w][1] = VERIFIER_EXAUSTED
       THEN /\ exec_res' = [exec_res EXCEPT ![w] = <<EXIT_ON_EXAUSTED, None>>]
            /\ Goto(w, "Refiner", "post")
            /\ UNCHANGED <<lemmas, refine_trace>>
       ELSE IF prep_res[w][1] # NORMAL
       THEN Raise(w) /\ UNCHANGED <<exec_res, lemmas, refine_trace>>
       ELSE \E calls \in conversations, returns \in BOOLEAN :
            LET lemma_id == prep_res[w][2]
                lemma == lemmas[lemma_id + 1]
                history_messages == IF recent_only THEN Recent(lemma.history_messages)
                                    ELSE lemma.history_messages
                \* messages_to_send is the lemma's own list: append in place
                messages_to_send == Append(history_messages, Message("user", <<>>))
                original_length == Len(messages_to_send)
                edited == execute_tools(
                              [lemma EXCEPT !.history_messages = messages_to_send],
                              calls)
                updated_messages == messages_to_send \o transcript(calls)
                new_messages == SubSeq(updated_messages, original_length + 1,
                                       Len(updated_messages))
            IN /\ lemmas' = [lemmas EXCEPT ![lemma_id + 1] = edited]
               /\ refine_trace' = [refine_trace EXCEPT ![w] =
                       Some([Get(@) EXCEPT !.new_messages = new_messages])]
               /\ IF returns
                  THEN /\ exec_res' = [exec_res EXCEPT ![w] =
                             <<NORMAL,
                               IF used_apply_diff(new_messages) THEN updated_messages
                               ELSE edited.history_messages>>]
                       /\ Goto(w, "Refiner", "post")
                  ELSE Raise(w) /\ UNCHANGED exec_res
    /\ UNCHANGED <<outside_flow, flow, current_lemma_id, result_summary, prep_res, last_action,
                   judged, yes_statements, verify_trace>>

Refiner_exec(w) == Refiner_exec_with(w, Conversations, FALSE)

Refiner_post(w) ==
    /\ At(w, "Refiner", "post")
    /\ IF Len(prep_res[w]) = 0 \/ Len(exec_res[w]) = 0
       THEN FollowEdge(w, EXIT_ON_ERROR) /\ UNCHANGED lemmas
       ELSE IF prep_res[w][1] = VERIFIER_EXAUSTED
       THEN /\ lemmas' =
                 IF ~IsNone(current_lemma_id[w])
                    /\ 0 <= Get(current_lemma_id[w])
                    /\ Get(current_lemma_id[w]) < Len(lemmas)
                 THEN [lemmas EXCEPT ![Get(current_lemma_id[w]) + 1].status =
                          "rejected"]
                 ELSE lemmas
            /\ FollowEdge(w, EXIT_ON_EXAUSTED)
       ELSE IF Len(exec_res[w]) < 2
       THEN FollowEdge(w, EXIT_ON_ERROR) /\ UNCHANGED lemmas
       ELSE LET lemma_id == Get(current_lemma_id[w]) IN
            /\ lemmas' = [lemmas EXCEPT ![lemma_id + 1] =
                   [@ EXCEPT !.status = "pending",
                             !.history_messages = exec_res[w][2]]]
            /\ FollowEdge(w, REFINE_SUCCESS)
    /\ UNCHANGED <<outside_flow, refine_trace, flow, current_lemma_id, result_summary, judged, yes_statements,
                   verify_trace>>

-----------------------------------------------------------------------------
(* agents/summarizer.py *)

RECURSIVE sorted(_)
sorted(ids) ==
    IF ids = {} THEN <<>>
    ELSE LET least == CHOOSE i \in ids : \A j \in ids : i <= j
         IN <<least>> \o sorted(ids \ {least})

Range(seq) == {seq[k] : k \in 1..Len(seq)}

Line(kind, id, text) == [kind |-> kind, id |-> id, text |-> text]

\* the lines of one "### Lemma {id}" block
format_entry(entry) ==
    <<Line("blank", 0, <<>>),
      Line("heading", entry.id, <<>>),
      Line("blank", 0, <<>>),
      Line("label", 0, <<"**Statement**">>),
      Line("body", 0, IF entry.statement = "" THEN <<"(statement missing)">>
                      ELSE <<entry.statement>>),
      Line("blank", 0, <<>>),
      Line("label", 0, <<"**Proof**">>),
      Line("body", 0, IF Len(entry.proof) = 0 THEN <<"(proof missing)">>
                      ELSE entry.proof)>>

RECURSIVE format_entries(_)
format_entries(bundle) ==
    IF Len(bundle) = 0 THEN <<>>
    ELSE format_entry(Head(bundle)) \o format_entries(Tail(bundle))

_format_lemmas_as_markdown(bundle) ==
    IF Len(bundle) = 0 THEN <<Line("body", 0, <<"No verified lemmas were produced.">>)>>
    ELSE <<Line("body", 0, <<"The research pipeline verified the following lemmas:">>)>>
         \o format_entries(bundle)

\* the reasoning path followed by the lemma itself, as found
unsorted_summary_ids(ls, lemma_id) ==
    Append(build_reasoning_path(ls, lemma_id, FALSE), lemma_id)

\* the ids Summarizer.prep puts into the bundle, in order
summary_ids(ls, lemma_id) ==
    sorted(Range(Append(build_reasoning_path(ls, lemma_id, FALSE), lemma_id)))

Summarizer_prep(w) ==
    /\ At(w, "Summarizer", "prep")
    /\ prep_res' = [prep_res EXCEPT ![w] =
            IF IsNone(current_lemma_id[w]) THEN <<EXIT_ON_ERROR, None>>
            ELSE LET lemma_id == Get(current_lemma_id[w])
                     ids == summary_ids(lemmas, lemma_id)
                 IN IF \/ lemmas[lemma_id + 1].status # "verified"
                       \/ ~lemmas[lemma_id + 1].is_theorem
                    THEN <<EXIT_ON_FAILURE, None>>
                    ELSE <<NORMAL,
                           [k \in 1..Len(ids) |->
                               [id |-> ids[k],
                                statement |-> lemmas[ids[k] + 1].statement,
                                proof |-> lemmas[ids[k] + 1].proof]]>>]
    /\ Goto(w, "Summarizer", "exec")
    /\ UNCHANGED <<outside_flow, refine_trace, flow, lemmas, current_lemma_id,
                   result_summary, exec_res,
                   last_action, judged, yes_statements, verify_trace>>

Summarizer_exec(w) ==
    /\ At(w, "Summarizer", "exec")
    /\ exec_res' = [exec_res EXCEPT ![w] =
            IF Len(prep_res[w]) < 2 \/ prep_res[w][1] # NORMAL
            THEN <<EXIT_ON_ERROR, None>>
            ELSE <<NORMAL, _format_lemmas_as_markdown(prep_res[w][2])>>]
    /\ Goto(w, "Summarizer", "post")
    /\ UNCHANGED <<outside_flow, refine_trace, flow, lemmas, current_lemma_id,
                   result_summary, prep_res,
                   last_action, judged, yes_statements, verify_trace>>

\* post returns None: Flow looks up the "default" successor
Summarizer_post(w) ==
    /\ At(w, "Summarizer", "post")
    /\ result_summary' =
            IF Len(exec_res[w]) < 2 \/ exec_res[w][1] # NORMAL THEN result_summary
            ELSE [result_summary EXCEPT ![w] = Some(exec_res[w][2])]
    /\ FollowEdge(w, "default")
    /\ UNCHANGED <<outside_flow, refine_trace, flow, lemmas, current_lemma_id, judged, yes_statements,
                   verify_trace>>

-----------------------------------------------------------------------------
Init ==
    /\ flow = create_research_flow
    /\ lemmas = <<>>
    /\ pc = [w \in Workers |-> [node |-> create_research_flow.start, phase |-> "prep"]]
    /\ current_lemma_id = [w \in Workers |-> None]
    /\ result_summary = [w \in Workers |-> None]
    /\ prep_res = [w \in Workers |-> <<>>]
    /\ exec_res = [w \in Workers |-> <<>>]
    /\ last_action = [w \in Workers |-> "none"]
    /\ judged = [w \in Workers |-> 0]
    /\ yes_statements = {}
    /\ verify_trace = [w \in Workers |-> <<>>]
    /\ conv = no_conversation
    /\ tool_context = no_tool_context
    /\ last_tool = None
    /\ research = no_research
    /\ refine_trace = [w \in Workers |-> None]
    /\ path = no_path
    /\ stream = no_stream
    /\ appended = [w \in Workers |-> None]
    /\ hooks = no_hooks
    /\ shared = SharedContext

Step(w) ==
    \/ Solver_prep(w)
    \/ Solver_exec(w)
    \/ Solver_post(w)
    \/ Verifier_prep(w)
    \/ Verifier_exec(w)
    \/ Verifier_post(w)
    \/ Refiner_prep(w)
    \/ Refiner_exec(w)
    \/ Refiner_post(w)
    \/ Summarizer_prep(w)
    \/ Summarizer_exec(w)
    \/ Summarizer_post(w)

\* one worker with its own lemma list
Next == \E w \in {"w1"} : Step(w)

Spec == Init /\ [][Next]_vars

-----------------------------------------------------------------------------
(* The Summarizer by itself, started where Verifier.post has returned DONE:  *)
(* the Solver stored verified lemmas that are no theorems, then the theorem, *)
(* each with a dependency array of the model's choosing.                     *)

SummaryDependencies == {<<>>, <<0>>, <<1>>, <<1, 0>>, <<2, 0>>, <<-1, 3>>}

verified_lemma(statement, deps, is_theorem) ==
    [new_lemma(statement, SolverProof, deps, is_theorem, "verified",
               <<Message("system", <<>>), Message("user", <<>>),
                 Message("assistant", <<>>)>>, 0)
     EXCEPT !.review = Some(<<VERIFY_RESULT_VALID>>)]

SummarizerInit ==
    /\ flow = create_research_flow
    /\ \E n \in 1..SummaryLemmas : \E deps \in [1..n -> SummaryDependencies] :
          /\ lemmas = [p \in 1..n |->
                          IF p = n THEN verified_lemma("s1", deps[p], TRUE)
                          ELSE verified_lemma("s2", deps[p], FALSE)]
          /\ current_lemma_id = [w \in Workers |->
                                    IF w = "w1" THEN Some(n - 1) ELSE None]
    /\ pc = [w \in Workers |->
                IF w = "w1" THEN [node |-> "Summarizer", phase |-> "prep"]
                ELSE [node |-> create_research_flow.start, phase |-> "prep"]]
    /\ result_summary = [w \in Workers |-> None]
    /\ prep_res = [w \in Workers |-> <<>>]
    /\ exec_res = [w \in Workers |-> <<>>]
    /\ last_action = [w \in Workers |-> IF w = "w1" THEN DONE ELSE "none"]
    /\ judged = [w \in Workers |-> IF w = "w1" THEN 1 ELSE 0]
    /\ yes_statements = {"s1"}
    /\ verify_trace = [w \in Workers |-> <<>>]
    /\ conv = no_conversation
    /\ tool_context = no_tool_context
    /\ last_tool = None
    /\ research = no_research
    /\ refine_trace = [w \in Workers |-> None]
    /\ path = no_path
    /\ stream = no_stream
    /\ appended = [w \in Workers |-> None]
    /\ hooks = no_hooks
    /\ shared = SharedContext

SummarizerNext ==
    \/ Summarizer_prep("w1")
    \/ Summarizer_exec("w1")
    \/ Summarizer_post("w1")

SummarizerSpec == SummarizerInit /\ [][SummarizerNext]_vars

-----------------------------------------------------------------------------
(* One tool call by itself: _execute_tool on the tool context and the lemmas *)
(* of the worker whose conversation issued it.                               *)

calm_world == [wolfram |-> "output", start_ok |-> TRUE, restart_ok |-> TRUE]

tool_call(name, args, world) ==
    LET r == _execute_tool(name, args, tool_context, lemmas,
                           current_lemma_id["w1"], world)
    IN /\ ~r.raised
       /\ lemmas' = r.lemmas
       /\ tool_context' = r.context
       /\ last_tool' = Some([name |-> name, args |-> args, content |-> r.content,
                             lemmas_before |-> lemmas,
                             context_before |-> tool_context, world |-> world,
                             earlier |-> IF IsNone(last_tool) THEN <<>>
                                         ELSE Append(Get(last_tool).earlier,
                                                     [name |-> Get(last_tool).name,
                                                      args |-> Get(last_tool).args,
                                                      world |-> Get(last_tool).world])])
       /\ UNCHANGED <<flow, pc, current_lemma_id, result_summary, prep_res, exec_res,
                      last_action, judged, yes_statements, verify_trace, conv,
                      research,
                      shared,
                      path, refine_trace, stream, appended, hooks>>

\* the state a Refiner conversation works in: one pending lemma, judged invalid
refined_lemma(proof) ==
    [new_lemma("s1", proof, <<>>, FALSE, "pending",
               <<Message("system", <<>>), Message("user", <<>>),
                 Message("assistant", <<>>), Message("user", <<>>)>>, 0)
     EXCEPT !.review = Some(<<"step 3 wrong">>)]

InRefinerConversation(ls, cur) ==
    /\ flow = create_research_flow
    /\ lemmas = ls
    /\ pc = [w \in Workers |->
                IF w = "w1" THEN [node |-> "Refiner", phase |-> "exec"]
                ELSE [node |-> create_research_flow.start, phase |-> "prep"]]
    /\ current_lemma_id = [w \in Workers |-> IF w = "w1" THEN Some(cur) ELSE None]
    /\ result_summary = [w \in Workers |-> None]
    /\ prep_res = [w \in Workers |->
                      IF w = "w1" THEN <<NORMAL, cur, "shared">> ELSE <<>>]
    /\ exec_res = [w \in Workers |-> <<>>]
    /\ last_action = [w \in Workers |->
                         IF w = "w1" THEN CONJECTURE_UNVERIFIED ELSE "none"]
    /\ judged = [w \in Workers |-> IF w = "w1" THEN 1 ELSE 0]
    /\ yes_statements = {}
    /\ verify_trace = [w \in Workers |-> <<>>]
    /\ conv = no_conversation
    /\ last_tool = None
    /\ research = no_research
    /\ refine_trace = [w \in Workers |-> None]
    /\ path = no_path
    /\ stream = no_stream
    /\ appended = [w \in Workers |-> None]
    /\ hooks = no_hooks
    /\ shared = SharedContext

(* modify_proof on every short proof text over three characters, and on one  *)
(* long enough to hold a marker of more than MARKER_MAX_LEN characters.       *)

Chars == {"a", "b", " "}
Texts(n) == UNION {[1..k -> Chars] : k \in 0..n}
LongMarker == [i \in 1..(MARKER_MAX_LEN + 1) |-> "a"]
LongProof == <<"a">> \o LongMarker \o <<"b">>

EditInit ==
    /\ \E proof \in Texts(MaxProofLen) \cup {LongProof} :
          InRefinerConversation(<<refined_lemma(proof)>>, 0)
    /\ tool_context = no_tool_context

modify_proof_call ==
    /\ IsNone(last_tool)
    /\ \E b, e \in Texts(MaxMarkerLen) \cup {LongMarker} :
          tool_call("modify_proof",
                    ToolArgs("object", <<>>, JsonValue("null", 0), "", b, e),
                    calm_world)

EditSpec == EditInit /\ [][modify_proof_call]_vars

\* the first index >= from at which marker occurs in text, or -1 (indices from 0)
Occurs(text, marker, i) ==
    /\ 0 <= i /\ i + Len(marker) <= Len(text)
    /\ \A k \in 1..Len(marker) : text[i + k] = marker[k]
FirstOccurrence(text, marker, from) ==
    IF \E i \in from..Len(text) : Occurs(text, marker, i)
    THEN CHOOSE i \in from..Len(text) :
            /\ Occurs(text, marker, i)
            /\ \A j \in from..(i - 1) : ~Occurs(text, marker, j)
    ELSE -1

\* what modify_proof did, given the markers it refuses
ModifyProofDoes(refuses(_, _)) ==
    ~IsNone(last_tool) /\ Get(last_tool).name = "modify_proof"
    => LET call == Get(last_tool)
           before == call.lemmas_before[1]
           P == before.proof
           b == call.args.begin_marker
           e == call.args.end_marker
           s == FirstOccurrence(P, b, 0)
           t == FirstOccurrence(P, e, s + Len(b))
       IN IF refuses(b, e) \/ s = -1 \/ t = -1
          THEN call.content.kind = "error" /\ lemmas[1] = before
          ELSE /\ lemmas[1].proof =
                    SubSeq(P, 1, s) \o call.args.proof_replacement
                    \o SubSeq(P, t + Len(e) + 1, Len(P))
               /\ lemmas[1].statement = before.statement

RefusesEmptyOrLong(b, e) ==
    \/ Len(b) = 0 \/ Len(e) = 0
    \/ Len(b) > 100 \/ Len(e) > 100

RefusesBlankOrLong(b, e) ==
    \/ Blank(b) \/ Blank(e)
    \/ Len(b) > 100 \/ Len(e) > 100

\* C18 as stated: modify_proof sets the proof to P[0..s) + replacement +
\* P[e+len(end_marker)..], s the first occurrence of begin_marker and e the first
\* occurrence of end_marker at or after s+len(begin_marker); if a marker is
\* empty, longer than 100 characters or not found it returns an error string
\* and leaves proof and statement unchanged.
C18_AsStated == ModifyProofDoes(RefusesEmptyOrLong)

\* C18, amended: the same, with the refused markers being those that are empty
\* or consist of whitespace only, those longer than 100 characters, and those
\* not found.
C18_ModifyProof == ModifyProofDoes(RefusesBlankOrLong)

\* an edit whose end marker occurs twice after the begin marker: the first is taken
C18_Witness ==
    /\ ~IsNone(last_tool)
    /\ Get(last_tool).lemmas_before[1].proof = <<"a", "b", "b", "a">>
    /\ Get(last_tool).args.begin_marker = <<"a">>
    /\ Get(last_tool).args.end_marker = <<"b">>
    /\ lemmas[1].proof = <<"c", "b", "a">>

-----------------------------------------------------------------------------
(* The tool calls of one conversation, one after the other, on the tool      *)
(* context that get_result builds once for the call.                         *)

MaxCalls == 3

\* lemma 0 was judged before; lemma 1 is the one being refined
earlier_lemma(status) ==
    [new_lemma("s0", <<"p", "0">>, <<>>, FALSE, status, <<>>, 1)
     EXCEPT !.review = Some(<<"step 3 wrong">>)]

ToolInit ==
    /\ \E status \in {"verified", "pending", "rejected"} :
          InRefinerConversation(<<earlier_lemma(status),
                                  refined_lemma(<<"a", "b">>)>>, 1)
    /\ \E ok \in BOOLEAN : tool_context = _init_tool_context(ok)

CallsLeft ==
    IF IsNone(last_tool) THEN TRUE ELSE Len(Get(last_tool).earlier) + 1 < MaxCalls

NoArgs == ToolArgs("object", <<>>, JsonValue("null", 0), "", <<>>, <<>>)

\* x = 1;  x = 5, y = 2, while True: pass;  z = 3, raise;  while True: pass
PythonCodes ==
    {<<Assign("x", 1)>>, <<Assign("x", 5), Assign("y", 2), Loop>>,
     <<Assign("z", 3), RaiseStmt>>, <<Loop>>}

run_python_call ==
    /\ CallsLeft
    /\ \E code \in PythonCodes :
          tool_call("run_python", [NoArgs EXCEPT !.code = code], calm_world)

\* what the kernel and the machine do during a run_wolfram call
Worlds ==
    {[wolfram |-> o, start_ok |-> s, restart_ok |-> r] :
        o \in {"output", "error", "timeout", "timeout, terminate raises"},
        s \in BOOLEAN, r \in BOOLEAN}

\* the choices that the call looks at
Looked(world) ==
    /\ ~IsNone(tool_context.wolfram_session) => world.start_ok
    /\ (IsNone(tool_context.wolfram_session) /\ ~world.start_ok)
          => world.wolfram = "output"
    /\ world.wolfram \in {"output", "error"} => world.restart_ok

run_wolfram_call ==
    /\ CallsLeft
    /\ \E world \in Worlds :
          /\ Looked(world)
          /\ tool_call("run_wolfram", NoArgs, world)

\* the lemma_id of a read_lemma call: integers in and out of range, true and
\* false, the string "0", null
LemmaIds ==
    {JsonValue("integer", v) : v \in {-1, 0, 1, 2}}
    \cup {JsonValue("boolean", v) : v \in {0, 1}}
    \cup {JsonValue("string", 0), JsonValue("null", 0)}

read_lemma_call ==
    /\ CallsLeft
    /\ \E id \in LemmaIds :
          tool_call("read_lemma", [NoArgs EXCEPT !.lemma_id = id], calm_world)

ToolNext == run_python_call \/ run_wolfram_call \/ read_lemma_call

ToolSpec == ToolInit /\ [][ToolNext]_vars

\* the bindings of the conversation's variables
Variables(env) == [k \in DOMAIN env \ {"__builtins__"} |-> env[k]]

LastCallWas(name) == ~IsNone(last_tool) /\ Get(last_tool).name = name

\* C16: after a run_python call that times out the tool returns error
\* "timeout" and the conversation's environment has the key-level bindings it
\* had before that call: keys the call added are absent, keys it overwrote
\* have their previous value.
C16_TimeoutRollsBack ==
    LastCallWas("run_python")
    => LET call == Get(last_tool)
           before == call.context_before.python_env
           after == tool_context.python_env
       IN exec_code(call.args.code, before).stopped = "TimeoutError"
          => /\ call.content = ToolContent("error", <<"timeout">>, <<>>)
             /\ DOMAIN Variables(after) = DOMAIN Variables(before)
             /\ \A k \in DOMAIN Variables(before) : after[k] = before[k]

\* x = 1 ran in two earlier calls; a third call rebinds x, binds y and times
\* out: x is 1 and y is absent
C16_Witness ==
    /\ LastCallWas("run_python")
    /\ Len(Get(last_tool).earlier) = 2
    /\ \A i \in 1..2 :
          /\ Get(last_tool).earlier[i].name = "run_python"
          /\ Get(last_tool).earlier[i].args.code = <<Assign("x", 1)>>
    /\ Get(last_tool).args.code = <<Assign("x", 5), Assign("y", 2), Loop>>
    /\ Get(last_tool).content.text = <<"timeout">>
    /\ tool_context.python_env["x"] = 1
    /\ "y" \notin DOMAIN tool_context.python_env

\* the last call was a run_wolfram call whose evaluation ran on session ran and
\* went past its timeout
WolframTimedOut(ran) ==
    /\ LastCallWas("run_wolfram")
    /\ Get(last_tool).world.wolfram \in {"timeout", "timeout, terminate raises"}
    /\ LET before == Get(last_tool).context_before IN
       IF IsNone(before.wolfram_session)
       THEN Get(last_tool).world.start_ok /\ ran = before.started + 1
       ELSE ran = Get(before.wolfram_session)

Sessions == 1..(MaxCalls + 1)

\* the session the context holds was started during the last call
HoldsFresh ==
    /\ ~IsNone(tool_context.wolfram_session)
    /\ Get(tool_context.wolfram_session) \in tool_context.alive
    /\ Get(tool_context.wolfram_session) = tool_context.started
    /\ tool_context.started > Get(last_tool).context_before.started

\* C17 as stated: the context holds one session at most; when a run_wolfram
\* evaluation exceeds its timeout the session is terminated and the tool
\* result is error "timeout", and the context then holds a freshly started
\* session for the later calls, never the terminated one.
C17_AsStated ==
    \A ran \in Sessions :
       WolframTimedOut(ran)
       => /\ Get(last_tool).content = ToolContent("error", <<"timeout">>, <<>>)
          /\ ran \notin tool_context.alive
          /\ HoldsFresh
          /\ Get(tool_context.wolfram_session) # ran

\* C17, amended: the session the context holds is never a terminated one; when
\* a run_wolfram evaluation exceeds its timeout the tool result is an error
\* that starts with "timeout" (exactly "timeout", with the session terminated,
\* unless terminate raises), and the context then holds either a session
\* started after the timeout or, when none can be started, no session; it
\* never holds the session that timed out.
C17_WolframSessions ==
    /\ ~IsNone(tool_context.wolfram_session)
          => Get(tool_context.wolfram_session) \in tool_context.alive
    /\ \A ran \in Sessions :
          WolframTimedOut(ran)
          => /\ Get(last_tool).content.kind = "error"
             /\ Get(last_tool).content.text[1]
                   \in {"timeout", "timeout (failed to terminate)"}
             /\ Get(last_tool).world.wolfram = "timeout"
                   => /\ Get(last_tool).content.text = <<"timeout">>
                      /\ ran \notin tool_context.alive
             /\ IF Get(last_tool).world.restart_ok THEN HoldsFresh
                ELSE IsNone(tool_context.wolfram_session)
             /\ tool_context.wolfram_session # Some(ran)

\* two evaluations in a row time out, each on another session; then a third
\* call evaluates on the session started after the second timeout
C17_Witness ==
    /\ LastCallWas("run_wolfram")
    /\ Len(Get(last_tool).earlier) = 2
    /\ \A i \in 1..2 : /\ Get(last_tool).earlier[i].name = "run_wolfram"
                        /\ Get(last_tool).earlier[i].world.wolfram = "timeout"
                        /\ Get(last_tool).earlier[i].world.restart_ok
    /\ Get(last_tool).content.kind = "output"
    /\ Get(last_tool).context_before.wolfram_session = Some(3)
    /\ tool_context.wolfram_session = Some(3)
    /\ tool_context.alive = {3}

\* the words of a tool content that are a lemma's statement or from its proof
Discloses(content, lemma) ==
    \E i \in 1..Len(content.text) :
       \/ content.text[i] = lemma.statement
       \/ \E j \in 1..Len(lemma.proof) : content.text[i] = lemma.proof[j]

\* C19: read_lemma returns a lemma's statement and proof only when the lemma
\* is verified; for a pending or rejected lemma, and for an id that is not an
\* integer or is out of range, it returns a warning or error text that holds
\* neither statement nor proof; it never changes shared state.
C19_ReadLemma ==
    LastCallWas("read_lemma")
    => LET call == Get(last_tool)
           id == call.args.lemma_id
           Readable == /\ id.type = "integer"
                       /\ 0 <= id.val /\ id.val < Len(lemmas)
                       /\ lemmas[id.val + 1].status = "verified"
       IN /\ lemmas = call.lemmas_before
          /\ tool_context = call.context_before
          /\ IF Readable
             THEN call.content.kind = "lemma"
             ELSE /\ call.content.kind \in {"warning", "error"}
                  /\ \A i \in 1..Len(lemmas) : ~Discloses(call.content, lemmas[i])

-----------------------------------------------------------------------------
(* LLMClient.get_result: the retry loop, the turns of one attempt and the    *)
(* dispatch of each turn's tool calls.  What the model streams and what the  *)
(* service does are chosen freely at each request.                           *)

\* scaled: 8 in agent_config.py, 100 in get_result
MAX_API_RETRY == 2
max_iterations == 2

\* a message of the conversation
ChatMessage(role, tool_calls, tool_call_id, content) ==
    [role |-> role, tool_calls |-> tool_calls, tool_call_id |-> tool_call_id,
     content |-> content]
NoId == [turn |-> 0, index |-> 0]
Text(words) == ToolContent("text", words, <<>>)

\* the message lists a caller passes
CallerMessages ==
    {<<ChatMessage("system", <<>>, NoId, Text(<<"prompt">>)),
       ChatMessage("user", <<>>, NoId, Text(<<"review">>))>>,
     <<ChatMessage("user", <<>>, NoId, Text(<<"problem">>))>>}

\* a tool call as _process_tool_calls assembles it
StreamedCall(name, args) == [name |-> name, args |-> args]

\* the tool calls a model turn may carry
StreamedCalls ==
    {StreamedCall("run_python", [NoArgs EXCEPT !.code = code]) : code \in PythonCodes}
    \cup {StreamedCall("run_wolfram", NoArgs),
          StreamedCall("modify_proof",
                       [NoArgs EXCEPT !.begin_marker = <<"z">>, !.end_marker = <<"b">>]),
          StreamedCall("frobnicate", NoArgs),
          StreamedCall("run_python", [NoArgs EXCEPT !.decodes = "no"]),
          StreamedCall("frobnicate", [NoArgs EXCEPT !.decodes = "no"]),
          StreamedCall("run_python", [NoArgs EXCEPT !.decodes = "array"])}

\* the turns: a final answer, one tool call, or two
Turns ==
    {<<>>} \cup {<<c>> : c \in StreamedCalls}
    \cup {<<c, d>> : c \in {StreamedCall("run_python", [NoArgs EXCEPT !.decodes = "no"]),
                             StreamedCall("run_wolfram", NoArgs)},
                     d \in {StreamedCall("frobnicate", NoArgs),
                             StreamedCall("run_python",
                                          [NoArgs EXCEPT !.code = <<Loop>>])}}

WithIds(calls, turn) ==
    [j \in 1..Len(calls) |->
        [id |-> [turn |-> turn, index |-> j], name |-> calls[j].name,
         args |-> calls[j].args]]

\* what the wolfram kernel does during a call
KernelWorlds ==
    {[wolfram |-> o, start_ok |-> TRUE, restart_ok |-> TRUE] :
        o \in {"output", "error", "timeout"}}

Exception(raised_by, attempt) == [raised_by |-> raised_by, attempt |-> attempt]

\* a get_result that goes on with the transcript of the abandoned attempt
continued_messages(base_messages, messages) == messages

\* messages = deepcopy(base_messages)
attempt_messages(base_messages, messages) == base_messages

\* a dispatch that appends nothing for arguments it cannot decode
no_parse_error_message(tc) == <<>>

\* the tool message for arguments that no candidate decodes
parse_error_message(tc) ==
    <<ChatMessage("tool", <<>>, tc.id,
                  ToolContent("error", <<"failed to decode tool arguments">>, <<>>))>>

\* _cleanup_tool_context: terminate the session the context holds
_cleanup_tool_context(ctx) ==
    IF IsNone(ctx.wolfram_session) THEN ctx
    ELSE [ctx EXCEPT !.alive = ctx.alive \ {Get(ctx.wolfram_session)}]

ClientUnchanged ==
    UNCHANGED <<flow, pc, current_lemma_id, result_summary, prep_res, exec_res,
                last_action, judged, yes_statements, verify_trace, last_tool,
                research,
                shared,
                path, refine_trace, stream, appended, hooks>>

\* get_result(messages, tools, shared): up to the while loop
get_result_called ==
    /\ conv.phase = "idle"
    /\ \E messages \in CallerMessages, ok \in BOOLEAN :
          /\ conv' = [no_conversation EXCEPT !.phase = "while",
                                             !.caller_messages = messages,
                                             !.base_messages = messages]
          /\ tool_context' = _init_tool_context(ok)
    /\ UNCHANGED lemmas
    /\ ClientUnchanged

\* while attempt < max_api_retry: a new attempt
attempt_started ==
    /\ conv.phase = "while"
    /\ conv.attempt < MAX_API_RETRY
    /\ conv' = [conv EXCEPT !.attempt = conv.attempt + 1,
                            !.messages = attempt_messages(conv.base_messages,
                                                          conv.messages),
                            !.iteration = 0, !.todo = <<>>, !.phase = "for"]
    /\ UNCHANGED <<lemmas, tool_context>>
    /\ ClientUnchanged

\* the while loop ends: raise last_exc, or return the baseline
while_ended ==
    /\ conv.phase = "while"
    /\ conv.attempt >= MAX_API_RETRY
    /\ conv' = IF ~IsNone(conv.last_exc) THEN [conv EXCEPT !.phase = "raised"]
               ELSE [conv EXCEPT !.phase = "returned",
                                 !.messages = conv.base_messages]
    /\ tool_context' = _cleanup_tool_context(tool_context)
    /\ UNCHANGED lemmas
    /\ ClientUnchanged

\* except ...: last_exc = exc; raise on the last attempt, else continue
AttemptFails(exc) ==
    /\ conv' = [conv EXCEPT !.last_exc = Some(exc),
                            !.phase = IF conv.attempt >= MAX_API_RETRY THEN "raised"
                                      ELSE "while"]
    /\ tool_context' = IF conv.attempt >= MAX_API_RETRY
                       THEN _cleanup_tool_context(tool_context) ELSE tool_context

\* return answer_content, reasoning_content, messages
Returns(c) ==
    /\ conv' = [c EXCEPT !.phase = "returned"]
    /\ tool_context' = _cleanup_tool_context(tool_context)

\* one turn of the for loop: _get_one_response and what follows it up to the
\* first tool call
_get_one_response ==
    /\ conv.phase = "for"
    /\ conv.iteration < max_iterations
    /\ \/ \E why \in {"service error", "missing finish_reason", "finish_reason length"} :
             AttemptFails(Exception("_get_one_response", conv.attempt))
       \/ \E turn \in Turns :
             LET tool_calls == WithIds(turn, conv.iteration + 1)
                 said == [conv EXCEPT
                            !.messages = Append(conv.messages,
                                ChatMessage("assistant", tool_calls, NoId,
                                            Text(<<"answer">>))),
                            !.iteration = conv.iteration + 1]
             IN IF Len(tool_calls) = 0
                THEN Returns([said EXCEPT !.last_exc = None])
                ELSE /\ conv' = [said EXCEPT !.phase = "tool_calls",
                                             !.todo = tool_calls]
                     /\ UNCHANGED tool_context
    /\ UNCHANGED lemmas
    /\ ClientUnchanged

\* for tc in tool_calls: one tool call
tool_call_dispatched ==
    /\ conv.phase = "tool_calls"
    /\ LET tc == Head(conv.todo)
           Appended(ms) ==
               [conv EXCEPT !.messages = conv.messages \o ms,
                            !.todo = Tail(conv.todo),
                            !.phase = IF Len(conv.todo) = 1 THEN "for"
                                      ELSE "tool_calls"]
       IN IF tc.args.decodes = "no"
          THEN /\ conv' = Appended(parse_error_message(tc))
               /\ UNCHANGED <<lemmas, tool_context>>
          ELSE \E world \in KernelWorlds :
                  /\ tc.name # "run_wolfram" => world = calm_world
                  /\ LET r == _execute_tool(tc.name, tc.args, tool_context, lemmas,
                                            current_lemma_id["w1"], world)
                     IN IF r.raised
                        THEN /\ AttemptFails(Exception("_execute_tool", conv.attempt))
                             /\ UNCHANGED lemmas
                        ELSE /\ conv' = Appended(<<ChatMessage("tool", <<>>, tc.id,
                                                               r.content)>>)
                             /\ tool_context' = r.context
                             /\ lemmas' = r.lemmas
    /\ ClientUnchanged

\* the for loop ran max_iterations turns
for_ended ==
    /\ conv.phase = "for"
    /\ conv.iteration >= max_iterations
    /\ IF IsNone(conv.last_exc) THEN Returns(conv)
       ELSE /\ conv' = [conv EXCEPT !.phase = "while"]
            /\ UNCHANGED tool_context
    /\ UNCHANGED lemmas
    /\ ClientUnchanged

ClientInit ==
    /\ InRefinerConversation(<<earlier_lemma("verified"),
                               refined_lemma(<<"a", "b">>)>>, 1)
    /\ tool_context = no_tool_context

ClientNext ==
    \/ get_result_called
    \/ attempt_started
    \/ while_ended
    \/ _get_one_response
    \/ tool_call_dispatched
    \/ for_ended

ClientSpec == ClientInit /\ [][ClientNext]_vars

\* an exception is raised in this step of the attempt
RaisedInStep == conv'.last_exc # conv.last_exc /\ ~IsNone(conv'.last_exc)

\* C13: get_result makes at most MAX_API_RETRY attempts; an attempt in which
\* an exception is raised (a bad or missing finish_reason raises one) is
\* abandoned; every attempt starts from a message list equal to the baseline
\* copy of the caller's messages, never from the partial transcript; when the
\* last attempt fails the exception is raised to the caller.
C13_RetryFromBaseline ==
    [][/\ conv'.attempt <= MAX_API_RETRY
       /\ conv'.attempt # conv.attempt
             => /\ conv'.attempt = conv.attempt + 1
                /\ conv.base_messages = conv.caller_messages
                /\ conv'.messages = conv.caller_messages
                /\ conv'.iteration = 0
       /\ RaisedInStep
             => /\ Get(conv'.last_exc).attempt = conv.attempt
                /\ IF conv.attempt < MAX_API_RETRY
                   THEN conv'.phase = "while" /\ conv'.attempt < MAX_API_RETRY
                   ELSE conv'.phase = "raised"
       /\ conv'.phase = "raised"
             => conv'.attempt = MAX_API_RETRY /\ ~IsNone(conv'.last_exc)
      ]_vars

\* the last attempt starts after an attempt that was abandoned in the middle
\* of a turn's tool calls: its messages are the caller's
C13_Witness ==
    /\ conv.phase = "for" /\ conv.iteration = 0
    /\ conv.attempt = MAX_API_RETRY
    /\ ~IsNone(conv.last_exc)
    /\ Get(conv.last_exc) = Exception("_execute_tool", MAX_API_RETRY - 1)
    /\ conv.messages = conv.caller_messages
    /\ Len(conv.messages) = 2

\* every assistant message of ms that carries k tool calls is followed at once
\* by exactly k tool messages, the j-th with the id of the j-th call
Paired(ms) ==
    \A i \in 1..Len(ms) :
       ms[i].role = "assistant"
       => LET k == Len(ms[i].tool_calls) IN
          /\ i + k <= Len(ms)
          /\ \A j \in 1..k : /\ ms[i + j].role = "tool"
                              /\ ms[i + j].tool_call_id = ms[i].tool_calls[j].id
          /\ i + k + 1 <= Len(ms) => ms[i + k + 1].role # "tool"

\* the tool messages still to come for the calls in todo
Awaited(todo) ==
    [j \in 1..Len(todo) |-> ChatMessage("tool", <<>>, todo[j].id, Text(<<>>))]

\* C14: in every transcript get_result returns, each assistant message with k
\* tool calls is followed at once by exactly k tool messages in the order of
\* the calls, the i-th with the id of the i-th call, also for calls whose
\* arguments cannot be decoded and for unknown tool names; a model request is
\* issued only when all k tool messages are appended.
C14_ToolMessagesFollow ==
    /\ conv.phase \in {"returned", "for"} => Paired(conv.messages)
    /\ conv.phase = "tool_calls" => Paired(conv.messages \o Awaited(conv.todo))

\* a returned transcript with a turn of two calls, the first with arguments
\* that do not decode, the second for a tool the client does not have
C14_Witness ==
    /\ conv.phase = "returned"
    /\ \E i \in 1..Len(conv.messages) :
          /\ conv.messages[i].role = "assistant"
          /\ Len(conv.messages[i].tool_calls) = 2
          /\ conv.messages[i].tool_calls[1].args.decodes = "no"
          /\ conv.messages[i].tool_calls[2].name = "frobnicate"
          /\ conv.messages[i + 1].role = "tool"
          /\ conv.messages[i + 1].tool_call_id = conv.messages[i].tool_calls[1].id
          /\ conv.messages[i + 1].content.kind = "error"
          /\ conv.messages[i + 2].role = "tool"
          /\ conv.messages[i + 2].tool_call_id = conv.messages[i].tool_calls[2].id
          /\ conv.messages[i + 3].role = "assistant"

\* C15: whatever fails while a tool call is handled, the dispatch appends a
\* tool message for the call (with the error text when the tool failed) and
\* goes on; it raises nothing and the attempt is neither abandoned nor retried.
C15_ToolFailuresStayInside ==
    [][conv.phase = "tool_calls"
       => /\ ~RaisedInStep
          /\ conv'.attempt = conv.attempt
          /\ conv'.phase \in {"tool_calls", "for"}
          /\ Len(conv'.messages) = Len(conv.messages) + 1
          /\ LET tm == conv'.messages[Len(conv'.messages)] IN
             /\ tm.role = "tool"
             /\ tm.tool_call_id = Head(conv.todo).id
             /\ (\/ Head(conv.todo).args.decodes # "object"
                 \/ Head(conv.todo).name \in {"frobnicate", "modify_proof"}
                 \/ /\ Head(conv.todo).name = "run_python"
                    /\ exec_code(Head(conv.todo).args.code, <<>>).stopped # "end")
                => tm.content.kind = "error"
      ]_vars

-----------------------------------------------------------------------------
(* AlphaSolve.do_research: rounds of max_worker_num workers, each a thread    *)
(* that runs _do_research; the main thread takes the futures as they         *)
(* complete.  What a worker's flow ends with is up to its run.               *)

MaxRounds == 2

\* a future of the round: running, or done with what _do_research returned,
\* or done with the exception that left it
Running == [state |-> "running", result |-> None]
Returned(result) == [state |-> "returned", result |-> result]
Raised == [state |-> "raised", result |-> None]

\* shared["result_summary"] when Flow.run is over: still None, or the text
\* the Summarizer stored, which may be empty
Summaries == {<<>>, <<"## Lemma-0">>, <<"## Lemma-0", "## Lemma-1">>}
FlowResults == {None} \cup {Some(text) : text \in Summaries}

\* an orchestrator that takes whatever is not None
is_not_none(data) == ~IsNone(data)

\* data and len(data) > 0
has_result(data) == ~IsNone(data) /\ Len(Get(data)) > 0

ResearchUnchanged ==
    UNCHANGED <<flow, lemmas, current_lemma_id, prep_res, exec_res, last_action,
                judged, yes_statements, verify_trace, conv, tool_context, last_tool,
                shared,
                path, refine_trace, stream, appended, hooks>>

do_research_called ==
    /\ research.phase = "idle"
    /\ \E iteration_num \in 0..MaxRounds :
          research' = [no_research EXCEPT !.phase = "for k",
                                          !.iteration_num = iteration_num]
    /\ UNCHANGED <<pc, result_summary>>
    /\ ResearchUnchanged

\* for k in range(iteration_num): submit one _do_research per worker, each on
\* a new shared_context and a new flow
round_started ==
    /\ research.phase = "for k"
    /\ research.k < research.iteration_num
    /\ research' = [research EXCEPT !.futures = [w \in Workers |-> Running],
                                    !.completed = <<>>, !.finished = 0,
                                    !.phase = "as_completed"]
    /\ pc' = [w \in Workers |-> [node |-> flow.start, phase |-> "prep"]]
    /\ result_summary' = [w \in Workers |-> None]
    /\ ResearchUnchanged

\* the rounds are over: return None
rounds_ended ==
    /\ research.phase = "for k"
    /\ research.k >= research.iteration_num
    /\ research' = [research EXCEPT !.phase = "returned", !.data = None]
    /\ UNCHANGED <<pc, result_summary>>
    /\ ResearchUnchanged

\* _do_research in worker w: flow.run(shared_context) runs to its end or
\* raises; then the result is shared_context["result_summary"]
_do_research(w) ==
    /\ research.phase # "idle"
    /\ w \in DOMAIN research.futures
    /\ research.futures[w] = Running
    /\ \/ /\ pc' = [pc EXCEPT ![w] = [node |-> pc[w].node, phase |-> "raised"]]
          /\ UNCHANGED result_summary
          /\ research' = [research EXCEPT !.futures[w] = Raised,
                                          !.completed = Append(@, w)]
       \/ \E result \in FlowResults :
             /\ pc' = [pc EXCEPT ![w] = [node |-> "Summarizer", phase |-> "ended"]]
             /\ result_summary' = [result_summary EXCEPT ![w] = result]
             /\ research' = [research EXCEPT !.futures[w] = Returned(result),
                                             !.completed = Append(@, w)]
    /\ ResearchUnchanged

\* for fut in as_completed(futures): the next completed future
future_seen ==
    /\ research.phase = "as_completed"
    /\ research.finished < Len(research.completed)
    /\ LET w == research.completed[research.finished + 1]
           fut == research.futures[w]
           logged == [research EXCEPT
                        !.log = Append(@, [k |-> research.k, worker |-> w, fut |-> fut])]
       IN research' =
             IF fut.state = "returned" /\ has_result(fut.result)
             THEN [logged EXCEPT !.phase = "returned", !.data = fut.result]
             ELSE IF research.finished + 1 = Cardinality(DOMAIN research.futures)
             THEN [logged EXCEPT !.finished = @ + 1, !.k = @ + 1, !.phase = "for k"]
             ELSE [logged EXCEPT !.finished = @ + 1]
    /\ UNCHANGED <<pc, result_summary>>
    /\ ResearchUnchanged

ResearchInit == Init

ResearchNext ==
    \/ do_research_called
    \/ round_started
    \/ rounds_ended
    \/ \E w \in Workers : _do_research(w)
    \/ future_seen

ResearchSpec == ResearchInit /\ [][ResearchNext]_vars

\* the future holds a summary that is not empty
NonEmptySummary(fut) ==
    /\ fut.state = "returned"
    /\ \E text \in Summaries : text # <<>> /\ fut.result = Some(text)

\* C20: do_research returns a non-null value iff some worker of an executed
\* round returned a non-empty summary; the value is then such a summary, and
\* it is returned when the first such result is seen.  If every worker of all
\* iteration_num rounds returns an empty summary or raises, it returns null;
\* the futures of a round are all looked at, also after one that raised.
C20_DoResearch ==
    research.phase = "returned"
    => LET log == research.log
           n == Len(log)
       IN IF ~IsNone(research.data)
          THEN /\ n >= 1
               /\ NonEmptySummary(log[n].fut)
               /\ research.data = log[n].fut.result
               /\ research.futures[log[n].worker] = log[n].fut
               /\ \A i \in 1..(n - 1) : ~NonEmptySummary(log[i].fut)
          ELSE /\ research.k = research.iteration_num
               /\ n = research.iteration_num * Cardinality(Workers)
               /\ \A k \in 0..(research.iteration_num - 1) : \A w \in Workers :
                     \E i \in 1..n : /\ log[i].k = k /\ log[i].worker = w
                                      /\ ~NonEmptySummary(log[i].fut)

\* the second round: the worker seen first raised, the other one's summary
\* is returned
C20_Witness ==
    /\ research.phase = "returned"
    /\ research.data = Some(<<"## Lemma-0">>)
    /\ research.k = 1
    /\ Len(research.log) = 4
    /\ research.log[3].k = 1 /\ research.log[3].fut = Raised
    /\ research.log[4].k = 1 /\ research.log[4].fut = Returned(research.data)

-----------------------------------------------------------------------------
(* The flow graph. *)

NineEdges ==
    {Edge("Solver", CONJECTURE_GENERATED, "Verifier"),
     Edge("Solver", EXIT_ON_EXAUSTED, "Summarizer"),
     Edge("Solver", EXIT_ON_ERROR, "Solver"),
     Edge("Verifier", CONJECTURE_VERIFIED, "Solver"),
     Edge("Verifier", CONJECTURE_UNVERIFIED, "Refiner"),
     Edge("Verifier", DONE, "Summarizer"),
     Edge("Refiner", REFINE_SUCCESS, "Verifier"),
     Edge("Refiner", EXIT_ON_EXAUSTED, "Solver"),
     Edge("Refiner", EXIT_ON_ERROR, "Refiner")}

\* C1 as stated: the flow starts at the Solver and its edges are exactly the nine
\* listed ones, none of them leaving the Summarizer.
C1_ExactlyNineEdges ==
    /\ flow.start = "Solver"
    /\ flow.successors = NineEdges

\* C1, amended: the flow starts at the Solver, the Summarizer has no outgoing edge,
\* and the edges are exactly the nine listed ones together with
\* Refiner:CONJECTURE_WRONG->Solver; every move of a worker from post to the next
\* node's prep is along one of them.
C1_FlowEdges ==
    /\ flow.start = "Solver"
    /\ flow.successors = NineEdges \cup {Edge("Refiner", CONJECTURE_WRONG, "Solver")}
    /\ \A e \in flow.successors : e.from # "Summarizer"
    /\ \A w \in Workers :
          pc[w].phase = "prep" /\ last_action[w] # "none"
          => \E e \in flow.successors : e.action = last_action[w] /\ e.to = pc[w].node

\* the run has gone Solver -> Verifier -> Summarizer and ended there for want of an edge
C1_Witness ==
    /\ At("w1", "Summarizer", "ended")
    /\ last_action["w1"] = "default"
    /\ ~IsNone(result_summary["w1"])

-----------------------------------------------------------------------------
(* Failures. *)

\* C2: no failure of a node escapes Flow.run, and a run ends only at the
\* Summarizer: no worker's phase raises, and a flow that has ended for want of an
\* edge has ended at the Summarizer.
C2_NoFailureEscapes ==
    \A w \in Workers :
        /\ pc[w].phase # "raised"
        /\ pc[w].phase = "ended" => pc[w].node = "Summarizer"

-----------------------------------------------------------------------------
(* Lemma status and the lemma list. *)

C4_SolverPost ==
    [][\A w \in Workers :
          At(w, "Solver", "post") /\ pc'[w] # pc[w]
          => IF pc'[w].phase # "raised" /\ last_action'[w] = CONJECTURE_GENERATED
             THEN /\ Len(lemmas') = Len(lemmas) + 1
                  /\ SubSeq(lemmas', 1, Len(lemmas)) = lemmas
                  /\ current_lemma_id'[w] = Some(Len(lemmas') - 1)
             ELSE /\ lemmas' = lemmas
                  /\ current_lemma_id'[w] = current_lemma_id[w]]_vars

\* a second lemma has been appended, and a later Solver.post has ended otherwise
C4_Witness ==
    /\ Len(lemmas) = 2
    /\ current_lemma_id["w1"] = Some(1)
    /\ At("w1", "Solver", "raised")
    /\ Len(exec_res["w1"]) > 0

\* C5: every dependency d of the lemma stored at index i satisfies 0 <= d < i
\* (index i is position i + 1).
C5_DependenciesPrecede ==
    \A p \in 1..Len(lemmas) :
        \A k \in 1..Len(lemmas[p].dependencies) :
            /\ 0 <= lemmas[p].dependencies[k]
            /\ lemmas[p].dependencies[k] < p - 1

-----------------------------------------------------------------------------
(* The summary. *)

IsVerifiedTheorem(w) ==
    /\ ~IsNone(current_lemma_id[w])
    /\ lemmas[Get(current_lemma_id[w]) + 1].status = "verified"
    /\ lemmas[Get(current_lemma_id[w]) + 1].is_theorem

\* C6: result_summary is non-null only if the worker's current lemma is verified
\* and a theorem, and a run whose Solver found the lemma quota exhausted goes on
\* to the Summarizer (it does not leave the flow by an exception) and ends
\* there with result_summary null.
C6_SummaryOnlyForTheorem ==
    \A w \in Workers :
        /\ ~IsNone(result_summary[w]) => IsVerifiedTheorem(w)
        /\ (/\ pc[w].node = "Solver"
            /\ Len(prep_res[w]) > 0
            /\ prep_res[w][1] = SOLVER_EXAUSTED)
           => pc[w].phase # "raised"
        /\ (pc[w].phase = "ended" /\ ~IsVerifiedTheorem(w))
           => pc[w].node = "Summarizer" /\ IsNone(result_summary[w])

\* the ids of the "### Lemma {id}" headings of a summary, in order of appearance
RECURSIVE HeadingIds(_)
HeadingIds(summary) ==
    IF Len(summary) = 0 THEN <<>>
    ELSE (IF Head(summary).kind = "heading" THEN <<Head(summary).id>> ELSE <<>>)
         \o HeadingIds(Tail(summary))

\* C7: the result_summary written for theorem t has exactly one block headed
\* "Lemma {id}" for each id of build_reasoning_path(t, verified_only = false)
\* united with {t}, and no other block; the blocks are in ascending id order.
C7_SummaryBlocks ==
    \A w \in Workers :
        ~IsNone(result_summary[w])
        => LET t == Get(current_lemma_id[w])
               ids == Range(build_reasoning_path(lemmas, t, FALSE)) \cup {t}
               heads == HeadingIds(Get(result_summary[w]))
           IN /\ Range(heads) = ids
              /\ Len(heads) = Cardinality(ids)
              /\ \A i, j \in 1..Len(heads) : i < j => heads[i] < heads[j]

\* a summary of three blocks whose reasoning path was found in the order 1, 0
C7_Witness ==
    /\ ~IsNone(result_summary["w1"])
    /\ current_lemma_id["w1"] = Some(2)
    /\ build_reasoning_path(lemmas, 2, FALSE) = <<1, 0>>
    /\ HeadingIds(Get(result_summary["w1"])) = <<0, 1, 2>>

-----------------------------------------------------------------------------
(* is_theorem and the verify quota. *)

\* C8: a lemma's is_theorem is true only if its current statement is one the
\* "fully addresses the problem" check answered yes for.
C8_TheoremStatementChecked ==
    \A p \in 1..Len(lemmas) :
        lemmas[p].is_theorem => lemmas[p].statement \in yes_statements

\* C9: no lemma is judged by the Verifier more than MAX_VERIFY_AND_REFINE_ROUND
\* times, and a Refiner that starts on a lemma already judged that often
\* finds the quota exhausted (it then rejects the lemma, returns to the Solver).
C9_VerifyQuota ==
    \A w \in Workers :
        /\ judged[w] <= MAX_VERIFY_AND_REFINE_ROUND
        /\ (/\ pc[w].node = "Refiner" /\ pc[w].phase \in {"exec", "post"}
            /\ judged[w] >= MAX_VERIFY_AND_REFINE_ROUND)
           => prep_res[w][1] = VERIFIER_EXAUSTED

-----------------------------------------------------------------------------
(* The Verifier's attempts. *)

HasBoxedValid(answer) == \E i \in DOMAIN answer : answer[i] = "boxed{valid}"

-----------------------------------------------------------------------------
(* Verifier.post. *)

CurrentLemma(w) == lemmas[Get(current_lemma_id[w]) + 1]

\* Verifier.post has just returned action a to worker w
VerifierReturned(w, a) ==
    /\ last_action[w] = a
    /\ pc[w].phase = "prep"
    /\ \E e \in flow.successors :
          e.from = "Verifier" /\ e.action = a /\ e.to = pc[w].node

\* C11: after Verifier.post with a valid verdict the current lemma is verified
\* and its review is cleared; after Verifier.post with an invalid verdict the
\* current lemma is pending and its review is the non-empty verifier answer.
C11_ReviewAfterVerdict ==
    \A w \in Workers :
        /\ (VerifierReturned(w, DONE) \/ VerifierReturned(w, CONJECTURE_VERIFIED))
           => /\ CurrentLemma(w).status = "verified"
              /\ IsNone(CurrentLemma(w).review)
        /\ VerifierReturned(w, CONJECTURE_UNVERIFIED)
           => /\ CurrentLemma(w).status = "pending"
              /\ ~IsNone(CurrentLemma(w).review)
              /\ Len(Get(CurrentLemma(w).review)) > 0

\* C12: a Verifier.post that has a verdict returns DONE iff the verdict is valid
\* and the current lemma is a theorem, CONJECTURE_VERIFIED iff it is valid and
\* the lemma is no theorem, CONJECTURE_UNVERIFIED iff it is invalid; after DONE
\* the next node is the Summarizer, and a worker at the Summarizer appends no
\* further lemma.
C12_VerifierActions ==
    [][\A w \in Workers :
          /\ (/\ At(w, "Verifier", "post") /\ pc'[w] # pc[w]
              /\ Len(exec_res[w]) = 5)
             => LET valid == exec_res[w][3]
                    theorem == lemmas[exec_res[w][2] + 1].is_theorem
                IN /\ last_action'[w] = DONE <=> (valid /\ theorem)
                   /\ last_action'[w] = CONJECTURE_VERIFIED <=> (valid /\ ~theorem)
                   /\ last_action'[w] = CONJECTURE_UNVERIFIED <=> ~valid
                   /\ last_action'[w] = DONE
                      => pc'[w] = [node |-> "Summarizer", phase |-> "prep"]
          /\ pc[w].node = "Summarizer"
             => lemmas' = lemmas /\ pc'[w].node = "Summarizer"]_vars

\* the second lemma is a theorem, verified after a refinement; the run has ended
C12_Witness ==
    /\ Len(lemmas) = 2
    /\ ~lemmas[1].is_theorem /\ lemmas[1].status = "verified"
    /\ lemmas[2].is_theorem /\ lemmas[2].status = "verified"
    /\ Len(lemmas[2].history_messages) > 3
    /\ last_action["w1"] = "default"
    /\ At("w1", "Summarizer", "ended")

-----------------------------------------------------------------------------
(* workflow.py, AlphaSolve.do_research: the workers of a round are threads    *)
(* handed the same lemma_pool list.  In the shared-by-all mode each worker's  *)
(* SharedContext holds that list as its "lemmas", so the one variable lemmas  *)
(* is the pool and every worker's nodes act on it.  The workers are followed  *)
(* through the Solver and the Verifier.                                        *)

PoolStep(w) ==
    \/ Solver_prep(w)
    \/ Solver_exec(w)
    \/ Solver_post(w)
    \/ Verifier_prep(w)
    \/ Verifier_exec(w)
    \/ Verifier_post(w)

PoolNext == \E w \in Workers : PoolStep(w)

PoolSpec == Init /\ [][PoolNext]_vars

\* C21: the only write a worker makes to the shared pool is the append of a
\* new lemma: in every step each lemma already in the pool stays in its place
\* with the same status, review, statement, proof and history.
C21_AppendOnly ==
    [][\A i \in 1..Len(lemmas) : i <= Len(lemmas') /\ lemmas'[i] = lemmas[i]]_vars

-----------------------------------------------------------------------------
(* shared_context.py: the operations on one SharedContext, in any order.      *)

KeyArgs == {"problem", "hint", "result_summary", "extra", "_frozen"}
ValueArgs == {"v", "None"}
UpdateArgs ==
    UNION {[ks -> ValueArgs] : ks \in SUBSET {"hint", "result_summary", "extra"} \ {{}}}

\* the operation op with the key arguments keys was made and left outcome
Operated(op, keys, outcome) ==
    /\ shared' = [items |-> outcome.items, frozen |-> outcome.frozen,
                  raised |-> outcome.raised, op |-> op, keys |-> keys,
                  before |-> shared.items, was_frozen |-> shared.frozen,
                  thawed |-> shared.thawed \/ ~outcome.frozen]
    /\ UNCHANGED <<flow, lemmas, pc, current_lemma_id, result_summary, prep_res,
                   exec_res, last_action, judged, yes_statements, verify_trace,
                   conv, tool_context, last_tool, research, path, refine_trace, stream, appended, hooks>>

item_assigned ==
    \E key \in KeyArgs \ {"_frozen"} : \E value \in ValueArgs :
       Operated("__setitem__", {key}, __setitem__(shared, key, value))

attribute_assigned ==
    \E name \in KeyArgs : \E value \in ValueArgs :
       Operated("__setattr__", {name}, __setattr__(shared, name, value))

item_deleted ==
    \E key \in KeyArgs \ {"_frozen"} : Operated("__delitem__", {key}, forbidden(shared))

popped ==
    \E key \in KeyArgs \ {"_frozen"} : Operated("pop", {key}, forbidden(shared))

popitem_called == Operated("popitem", {}, forbidden(shared))

clear_called == Operated("clear", {}, forbidden(shared))

setdefault_called ==
    \E key \in KeyArgs \ {"_frozen"} : Operated("setdefault", {key}, forbidden(shared))

update_called ==
    \E data \in UpdateArgs : Operated("update", DOMAIN data, update(shared, data))

SharedInit == Init

SharedNext ==
    \/ item_assigned
    \/ attribute_assigned
    \/ item_deleted
    \/ popped
    \/ popitem_called
    \/ clear_called
    \/ setdefault_called
    \/ update_called

SharedSpec == SharedInit /\ [][SharedNext]_vars

\* the last operation would have added a key to the dict, or removed one
WouldAddKey ==
    /\ shared.op \in {"__setitem__", "__setattr__", "setdefault", "update"}
    /\ \E k \in shared.keys \ {"_frozen"} : k \notin DOMAIN shared.before
WouldRemoveKey ==
    \/ shared.op \in {"__delitem__", "pop"} /\ shared.keys \subseteq DOMAIN shared.before
    \/ shared.op \in {"popitem", "clear"} /\ DOMAIN shared.before # {}

Refused == ~IsNone(shared.raised) /\ shared.items = shared.before

-----------------------------------------------------------------------------
\* C23: no node's prep and no node's exec changes the shared state (the lemma
\* list with every lemma's fields, current_lemma_id, result_summary): a step
\* taken from a prep or exec phase leaves them as they were.
C23_OnlyPostWrites ==
    [][\A w \in Workers :
          (pc[w].phase \in {"prep", "exec"} /\ pc'[w] # pc[w])
             => /\ lemmas' = lemmas
                /\ current_lemma_id'[w] = current_lemma_id[w]
                /\ result_summary'[w] = result_summary[w]]_vars

-----------------------------------------------------------------------------
(* shared_context.py, build_reasoning_path as a function of the list: lists   *)
(* of PathLemmas lemmas whose dependency lists hold any JSON values, walked  *)
(* from the last lemma.                                                       *)

PathLemmas == 3
MaxDeps == 2

\* what a dependency list can hold: integers below, in and beyond the list, a
\* boolean, a string
DepValues ==
    {JsonValue("integer", v) : v \in {-1, PathLemmas} \cup 0..(PathLemmas - 2)}
    \cup {JsonValue("boolean", 1), JsonValue("string", 0)}
DepLists == UNION {[1..m -> DepValues] : m \in 0..MaxDeps}

\* "if not isinstance(d, int): continue": the entries dfs goes on with, as the
\* integers Python compares and indexes with
int_entries(deps) ==
    LET ints == SelectSeq(deps, IsInstanceInt) IN [k \in 1..Len(ints) |-> ints[k].val]
as_read(ls) == [p \in 1..Len(ls) |-> [ls[p] EXCEPT !.dependencies = int_entries(@)]]

PathUnchanged ==
    UNCHANGED <<flow, lemmas, pc, current_lemma_id, result_summary, prep_res,
                exec_res, last_action, judged, yes_statements, verify_trace,
                conv, tool_context, last_tool, research, shared, refine_trace, stream, appended, hooks>>

\* a lemma list is there: the last lemma is the pending one being worked on
lemmas_listed ==
    /\ path.phase = "idle"
    /\ \E deps \in [1..PathLemmas -> DepLists] :
       \E status \in [1..(PathLemmas - 1) -> {"verified", "pending"}] :
          path' = [path EXCEPT
                     !.phase = "listed",
                     !.lemmas = [p \in 1..PathLemmas |->
                                   new_lemma("s", <<>>, deps[p], FALSE,
                                             IF p < PathLemmas THEN status[p]
                                             ELSE "pending", <<>>, 0)],
                     !.lemma_id = PathLemmas - 1]
    /\ PathUnchanged

build_reasoning_path_called ==
    /\ path.phase = "listed"
    /\ path' = [path EXCEPT
                  !.phase = "returned",
                  !.out = build_reasoning_path(as_read(path.lemmas), path.lemma_id,
                                               path.verified_only)]
    /\ PathUnchanged

PathNext == lemmas_listed \/ build_reasoning_path_called

PathSpec == Init /\ [][PathNext]_vars

\* d survives dfs's filter as a dependency of lemma j of the list ls
Survives(ls, j, d) ==
    /\ 0 <= d /\ d < Len(ls)
    /\ d < j
    /\ ls[d + 1].status = "verified"

\* C24: build_reasoning_path(i, verified_only = true) returns a list without
\* duplicates and without i, of ids j < i of verified lemmas only, in which
\* every dependency of lemma out[p] that survives the filter stands before p.
C24_ReasoningPath ==
    path.phase = "returned" =>
       LET out == path.out
           ls == as_read(path.lemmas)
       IN /\ \A p, q \in 1..Len(out) : p # q => out[p] # out[q]
          /\ \A p \in 1..Len(out) :
                /\ 0 <= out[p] /\ out[p] < path.lemma_id
                /\ ls[out[p] + 1].status = "verified"
                /\ \A k \in 1..Len(ls[out[p] + 1].dependencies) :
                      Survives(ls, out[p], ls[out[p] + 1].dependencies[k])
                         => \E q \in 1..(p - 1) :
                               out[q] = ls[out[p] + 1].dependencies[k]

\* lemma 2 depends on 1 and 0 in this order, lemma 1 on 0: the path is 0, 1
C24_Witness ==
    /\ path.phase = "returned"
    /\ path.lemmas[3].dependencies = <<JsonValue("integer", 1), JsonValue("integer", 0)>>
    /\ path.lemmas[2].dependencies = <<JsonValue("integer", 0)>>
    /\ path.out = <<0, 1>>

-----------------------------------------------------------------------------
\* C25: a lemma's verify_round is the number of times Verifier.post has judged
\* it: 0 when the Solver appends it, one more after each Verifier.post verdict.
C25_VerifyRoundCounts ==
    \A w \in Workers :
        ~IsNone(current_lemma_id[w])
           => lemmas[Get(current_lemma_id[w]) + 1].verify_round = judged[w]

-----------------------------------------------------------------------------
(* The Refiner's transcript. *)

\* Refiner.post has just returned REFINE_SUCCESS for worker w
Refined(w) ==
    /\ last_action[w] = REFINE_SUCCESS
    /\ pc[w] = [node |-> "Verifier", phase |-> "prep"]
    /\ ~IsNone(refine_trace[w])
    /\ ~IsNone(current_lemma_id[w])

\* the messages hold an assistant message with a tool call of one of these names
Called(new_messages, names) ==
    \E m \in 1..Len(new_messages) :
        /\ new_messages[m].role = "assistant"
        /\ \E c \in 1..Len(new_messages[m].tool_calls) :
               new_messages[m].tool_calls[c] \in names

\* C26: when the model issued no modify_statement and no modify_proof call
\* during Refiner.exec, then after Refiner.post the lemma's history_messages
\* are what they were before Refiner.prep, and so are its statement and proof.
C26_NoEditNoChange ==
    \A w \in Workers :
        (Refined(w) /\ ~Called(Get(refine_trace[w]).new_messages,
                               {"modify_statement", "modify_proof"}))
           => LET lemma == lemmas[Get(current_lemma_id[w]) + 1]
                  before == Get(refine_trace[w]).lemma
              IN /\ lemma.history_messages = before.history_messages
                 /\ lemma.statement = before.statement
                 /\ lemma.proof = before.proof

\* C27: when the new messages hold an assistant message with a modify_statement
\* or modify_proof call, then after Refiner.post returned REFINE_SUCCESS the
\* lemma's history_messages are the previous history, the review message and
\* all the new messages, and its status is pending.
C27_EditKeepsTranscript ==
    \A w \in Workers :
        (Refined(w) /\ Called(Get(refine_trace[w]).new_messages,
                              {"modify_statement", "modify_proof"}))
           => LET lemma == lemmas[Get(current_lemma_id[w]) + 1]
                  before == Get(refine_trace[w]).lemma
              IN /\ lemma.history_messages =
                       Append(before.history_messages, Message("user", <<>>))
                          \o Get(refine_trace[w]).new_messages
                 /\ lemma.status = "pending"
                 /\ Len(lemma.history_messages) >= Len(before.history_messages)

-----------------------------------------------------------------------------
\* C28: build_reasoning_path returns for every content of the dependency lists,
\* and an entry that is negative, beyond the list, not below the lemma that
\* lists it, or not an integer is skipped: every id of the result is there
\* because some lemma lists it as an integer in range and below its own id.
C28_BadEntriesSkipped ==
    path.phase = "returned" =>
       \A p \in 1..Len(path.out) :
          \E j \in 1..Len(path.lemmas) :
             \E k \in 1..Len(path.lemmas[j].dependencies) :
                LET d == path.lemmas[j].dependencies[k] IN
                /\ d.type = "integer"
                /\ d.val = path.out[p]
                /\ 0 <= d.val /\ d.val < Len(path.lemmas)
                /\ d.val < j - 1

-----------------------------------------------------------------------------
(* shared_context.py, build_reasoning_path step by step on the lemma pool:    *)
(* one worker's call goes through dfs one loop iteration at a time, reading  *)
(* the list as it is at that moment, while another worker's Solver.post       *)
(* appends to it.                                                             *)

WalkLemmas == 3
MaxAppends == 1

WalkUnchanged ==
    UNCHANGED <<flow, pc, current_lemma_id, result_summary, prep_res, exec_res,
                last_action, judged, yes_statements, verify_trace, refine_trace,
                conv, tool_context, last_tool, research, shared, stream, appended, hooks>>

\* the lemmas another worker's Solver.post can append
Appended ==
    {new_lemma("s", <<>>, deps, FALSE, status, <<>>, 0) :
        deps \in UNION {[1..m -> 0..WalkLemmas] : m \in 0..MaxDeps},
        status \in {"verified", "pending"}}

\* the pool before the call
lemma_appended ==
    /\ path.phase = "idle"
    /\ Len(lemmas) < WalkLemmas
    /\ \E lemma \in Appended : lemmas' = Append(lemmas, lemma)
    /\ UNCHANGED path
    /\ WalkUnchanged

\* the pool grows during the call
lemma_appended_meanwhile ==
    /\ path.phase = "dfs"
    /\ Len(lemmas) < Len(path.lemmas) + MaxAppends
    /\ \E lemma \in {new_lemma("s", <<>>, <<>>, FALSE, "pending", <<>>, 0),
                     new_lemma("s", <<>>, <<0>>, FALSE, "verified", <<>>, 0)} :
          lemmas' = Append(lemmas, lemma)
    /\ UNCHANGED path
    /\ WalkUnchanged

\* build_reasoning_path(lemma_id) for the last lemma, up to the call of dfs;
\* path.lemmas keeps the list as it was at this moment
build_reasoning_path_entered ==
    /\ path.phase = "idle"
    /\ Len(lemmas) > 0
    /\ path' = [path EXCEPT !.phase = "dfs", !.lemmas = lemmas,
                            !.lemma_id = Len(lemmas) - 1,
                            !.stack = <<[i |-> Len(lemmas) - 1, k |-> 1]>>,
                            !.seen = {}, !.out = <<>>]
    /\ UNCHANGED lemmas
    /\ WalkUnchanged

skipped_in_range_only(ls, verified_only, i, d, seen) ==
    IF d < 0 \/ d >= Len(ls) THEN TRUE
    ELSE IF verified_only /\ ls[d + 1].status # "verified" THEN TRUE
    ELSE d \in seen

\* the tests of one iteration of dfs(i)'s loop that end in "continue"
skipped(ls, verified_only, i, d, seen) ==
    IF d < 0 \/ d >= Len(ls) THEN TRUE
    ELSE IF d >= i THEN TRUE
    ELSE IF verified_only /\ ls[d + 1].status # "verified" THEN TRUE
    ELSE d \in seen

\* one iteration of the loop of the innermost dfs, or its return
dfs_step ==
    /\ path.phase = "dfs"
    /\ LET depth == Len(path.stack)
           top == path.stack[depth]
           deps == lemmas[top.i + 1].dependencies
       IN IF top.k > Len(deps)
          THEN IF depth = 1
               THEN path' = [path EXCEPT !.phase = "returned", !.stack = <<>>]
               ELSE path' = [path EXCEPT
                               !.stack = [SubSeq(path.stack, 1, depth - 1)
                                            EXCEPT ![depth - 1].k = @ + 1],
                               !.out = Append(path.out, top.i)]
          ELSE IF skipped(lemmas, path.verified_only, top.i, deps[top.k], path.seen)
          THEN path' = [path EXCEPT !.stack[depth].k = @ + 1]
          ELSE path' = [path EXCEPT
                          !.seen = @ \cup {deps[top.k]},
                          !.stack = Append(@, [i |-> deps[top.k], k |-> 1])]
    /\ UNCHANGED lemmas
    /\ WalkUnchanged

WalkNext ==
    \/ lemma_appended
    \/ build_reasoning_path_entered
    \/ dfs_step
    \/ lemma_appended_meanwhile

WalkSpec == Init /\ [][WalkNext]_vars

\* C29: when other workers append lemmas during one worker's
\* build_reasoning_path(i), the call goes on without error (the nested dfs
\* calls are for ever smaller ids of the list as it was when the call started,
\* so they end) and it returns ids below i only, the same ids it returns on
\* the list as it was when the call started.
C29_AppendsDuringTraversal ==
    /\ path.phase = "dfs" =>
          /\ path.stack[1].i = path.lemma_id
          /\ \A n \in 1..Len(path.stack) :
                /\ 0 <= path.stack[n].i /\ path.stack[n].i < Len(path.lemmas)
                /\ n > 1 => path.stack[n].i < path.stack[n - 1].i
    /\ path.phase = "returned" =>
          /\ \A p \in 1..Len(path.out) : path.out[p] < path.lemma_id
          /\ path.out = build_reasoning_path(path.lemmas, path.lemma_id,
                                             path.verified_only)

\* a call that returned a lemma after the pool had grown, for a lemma that
\* lists the id the new lemma took
C29_Witness ==
    /\ path.phase = "returned"
    /\ Len(lemmas) > Len(path.lemmas)
    /\ Len(path.out) > 0
    /\ \E k \in 1..Len(lemmas[path.lemma_id + 1].dependencies) :
          lemmas[path.lemma_id + 1].dependencies[k] = Len(path.lemmas)

-----------------------------------------------------------------------------
(* llms/utils.py, _process_tool_calls: the tool-call fragments of a streamed  *)
(* response, delta by delta.  Texts are sequences of characters.              *)

MaxDeltas == 2
MaxFragments == 2

\* a fragment of a delta's tool_calls list; index is None when it has none
Fragment(index, id, name, arguments) ==
    [index |-> index, id |-> id, name |-> name, arguments |-> arguments]

Fragments ==
    {Fragment(index, part[1], part[2], part[3]) :
        index \in {None, Some(0), Some(1)},
        part \in {<<<<"x">>, <<"f">>, <<>>>>, <<<<"y">>, <<>>, <<>>>>,
                  <<<<>>, <<"g">>, <<>>>>, <<<<>>, <<>>, <<"1">>>>,
                  <<<<>>, <<>>, <<"2">>>>, <<<<>>, <<>>, <<>>>>}}

\* the entry the accumulator is padded with (an id of None is the empty text)
empty_call == [id |-> <<>>, name |-> <<>>, arguments |-> <<>>]

RECURSIVE padded(_, _)
padded(acc, idx) == IF Len(acc) <= idx THEN padded(Append(acc, empty_call), idx) ELSE acc

\* the body of the loop for the fragment tc at position fallback_i of its delta
merged(acc, tc, fallback_i) ==
    LET idx == IF IsNone(tc.index) THEN fallback_i ELSE Get(tc.index)
        room == padded(acc, idx)
    IN [room EXCEPT ![idx + 1] =
          [id |-> IF tc.id # <<>> THEN tc.id ELSE @.id,
           name |-> IF tc.name # <<>> THEN tc.name ELSE @.name,
           arguments |-> @.arguments \o tc.arguments]]

RECURSIVE process_from(_, _, _)
process_from(tc_delta, acc, fallback_i) ==
    IF fallback_i >= Len(tc_delta) THEN acc
    ELSE process_from(tc_delta, merged(acc, tc_delta[fallback_i + 1], fallback_i),
                      fallback_i + 1)

_process_tool_calls(tc_delta, tool_calls_acc) == process_from(tc_delta, tool_calls_acc, 0)

\* a chunk of the stream arrives with a tool_calls delta
delta_received ==
    /\ Len(stream.deltas) < MaxDeltas
    /\ \E tc_delta \in UNION {[1..n -> Fragments] : n \in 1..MaxFragments} :
          stream' = [deltas |-> Append(stream.deltas, tc_delta),
                     tool_calls_acc |-> _process_tool_calls(tc_delta,
                                                            stream.tool_calls_acc)]
    /\ UNCHANGED <<flow, lemmas, pc, current_lemma_id, result_summary, prep_res,
                   exec_res, last_action, judged, yes_statements, verify_trace,
                   refine_trace, conv, tool_context, last_tool, research, shared, path,
                   appended, hooks>>

StreamNext == delta_received

StreamSpec == Init /\ [][StreamNext]_vars

\* the fragments of the stream in the order they arrived
RECURSIVE Arrived(_)
Arrived(deltas) == IF Len(deltas) = 0 THEN <<>> ELSE Head(deltas) \o Arrived(Tail(deltas))

\* the parts of one field carried by the fragments with explicit index i, joined
RECURSIVE Joined(_, _, _)
Joined(frags, i, field) ==
    IF Len(frags) = 0 THEN <<>>
    ELSE (IF Head(frags).index = Some(i) THEN Head(frags)[field] ELSE <<>>)
         \o Joined(Tail(frags), i, field)

\* C30: in a stream whose fragments all carry an explicit index, the id, the
\* name and the arguments of the accumulated call at position i are each the
\* concatenation, in arrival order, of the parts of exactly the fragments whose
\* index is i, however the fragments are spread over the deltas.
C30_Concatenation ==
    LET frags == Arrived(stream.deltas) IN
    (\A n \in 1..Len(frags) : ~IsNone(frags[n].index)) =>
       \A i \in 0..(Len(stream.tool_calls_acc) - 1) :
          /\ stream.tool_calls_acc[i + 1].id = Joined(frags, i, "id")
          /\ stream.tool_calls_acc[i + 1].name = Joined(frags, i, "name")
          /\ stream.tool_calls_acc[i + 1].arguments = Joined(frags, i, "arguments")

-----------------------------------------------------------------------------
(* What the prompts show. *)

\* worker w's node has the prompt its prep built
Prompted(w, node) ==
    /\ pc[w].node = node
    /\ pc[w].phase \in {"exec", "post"}
    /\ Len(prep_res[w]) >= 3
    /\ prep_res[w][1] = NORMAL

\* C31: the context section of every Solver prompt and every verified-only
\* reasoning path given to the Verifier show verified lemmas only, never a
\* pending or a rejected one.
C31_VerifiedContextOnly ==
    \A w \in Workers :
        /\ Prompted(w, "Solver") =>
              \A k \in 1..Len(prep_res[w][2]) :
                 lemmas[prep_res[w][2][k].lemma_id + 1].status = "verified"
        /\ Prompted(w, "Verifier") =>
              \A k \in 1..Len(prep_res[w][4]) :
                 lemmas[prep_res[w][4][k].lemma_id + 1].status = "verified"

\* a Solver prompt built while the pool held a verified and a pending lemma
C31_Witness ==
    \E w \in Workers :
        /\ Prompted(w, "Solver")
        /\ Len(prep_res[w][2]) = 1
        /\ pc[w].phase = "exec"
        /\ \E p \in 1..Len(lemmas) : lemmas[p].status = "pending"

-----------------------------------------------------------------------------
(* Solver.post in a worker thread.  The workers of a round are threads on the *)
(* one pool list; a thread can be preempted between two statements, so the    *)
(* append (solver.py line 106) and the reading of the list's length for the   *)
(* new lemma's id (lines 107-108) are two steps.                              *)

ThreadUnchanged ==
    UNCHANGED <<flow, result_summary, judged, yes_statements, verify_trace, refine_trace,
                conv, tool_context, last_tool, research, shared, path, stream, hooks>>

\* Solver.post up to and including shared["lemmas"].append(lemma)
lemma_appended_by(w) ==
    /\ At(w, "Solver", "post")
    /\ _valid_exec_res(exec_res[w])
    /\ exec_res[w][1] # EXIT_ON_EXAUSTED
    /\ validate_lemma(exec_res[w][2], None) = "ok"
    /\ \E c \in CheckResponses :
          lemmas' = Append(lemmas, [Get(exec_res[w][2]).lemma EXCEPT
                                        !.is_theorem = (StripLower(c) = "yes")])
    /\ appended' = [appended EXCEPT ![w] = Some(Len(lemmas))]
    /\ Goto(w, "Solver", "appended")
    /\ UNCHANGED <<current_lemma_id, prep_res, exec_res, last_action>>
    /\ ThreadUnchanged

\* lemma_id = len(shared["lemmas"]) - 1; shared["current_lemma_id"] = lemma_id;
\* return CONJECTURE_GENERATED
lemma_id_assigned(w) ==
    /\ At(w, "Solver", "appended")
    /\ current_lemma_id' = [current_lemma_id EXCEPT ![w] = Some(appended_lemma_id(lemmas))]
    /\ FollowEdge(w, CONJECTURE_GENERATED)
    /\ UNCHANGED <<lemmas, appended>>
    /\ ThreadUnchanged

\* the returns of Solver.post that append nothing
Solver_post_without_lemma(w) == Solver_post(w) /\ lemmas' = lemmas

ThreadStep(w) ==
    \/ Solver_prep(w)
    \/ Solver_exec(w)
    \/ Solver_post_without_lemma(w)
    \/ lemma_appended_by(w)
    \/ lemma_id_assigned(w)

ThreadNext == \E w \in Workers : ThreadStep(w)

ThreadSpec == Init /\ [][ThreadNext]_vars

\* C32: with two workers on one pool, after a worker's Solver.post the lemma
\* at its current_lemma_id is the lemma this worker appended, however the
\* appends and the index computations of the workers interleave.
C32_OwnLemmaIsCurrent ==
    \A w \in Workers :
        (pc[w].node = "Verifier" /\ last_action[w] = CONJECTURE_GENERATED)
            => current_lemma_id[w] = appended[w]

\* C33: the lemma list never holds more than MAX_LEMMA_NUM lemmas, with one
\* worker and with two workers that check the quota in Solver.prep and append
\* in Solver.post on the same pool.
C33_QuotaRespected == Len(lemmas) <= MAX_LEMMA_NUM

-----------------------------------------------------------------------------
(* The workers of a round on the shared pool, followed to the end of their    *)
(* flows: Solver, Verifier and Summarizer.                                    *)

PoolRunStep(w) ==
    \/ PoolStep(w)
    \/ Summarizer_prep(w)
    \/ Summarizer_exec(w)
    \/ Summarizer_post(w)

PoolRunNext == \E w \in Workers : PoolRunStep(w)

PoolRunSpec == Init /\ [][PoolRunNext]_vars

\* C34: when a summary is written, every lemma that has a block in it has
\* status verified: no pending or rejected lemma among the theorem's
\* transitive dependencies is included.
C34_SummaryOfVerifiedLemmas ==
    [][\A w \in Workers :
          (result_summary'[w] # result_summary[w] /\ ~IsNone(result_summary'[w]))
          => LET heads == HeadingIds(Get(result_summary'[w]))
             IN \A k \in 1..Len(heads) : lemmas'[heads[k] + 1].status = "verified"]_vars

-----------------------------------------------------------------------------
(* Termination of one worker's flow.  Flow.run executes node after node, and  *)
(* every LLM call returns (or raises): a step that can be taken is taken.     *)
(* To follow a run for as long as it goes, the verdicts are not counted, the  *)
(* Refiner's model answers without tool calls, and of a lemma's history only  *)
(* the last MaxHistory messages are kept; no node decides on what is left out.*)

LoopStep(w) ==
    \/ Solver_prep(w)
    \/ Solver_exec(w)
    \/ Solver_post(w)
    \/ Verifier_prep(w)
    \/ Verifier_exec(w)
    \/ Verifier_post_judging(w, FALSE)
    \/ Refiner_prep(w)
    \/ Refiner_exec_with(w, {<<>>}, TRUE)
    \/ Refiner_post(w)
    \/ Summarizer_prep(w)
    \/ Summarizer_exec(w)
    \/ Summarizer_post(w)

LoopNext == \E w \in {"w1"} : LoopStep(w)

LoopSpec == Init /\ [][LoopNext]_vars /\ WF_vars(LoopNext)

\* C35: every run of the flow comes to a stop, whatever the model answers:
\* Flow.run returns (the claim: at the Summarizer) or is left by an exception.
C35_FlowStops == <>(pc["w1"].phase \in {"ended", "raised"})

-----------------------------------------------------------------------------
(* llms/tools.py, run_python in the worker threads.  The calls of different   *)
(* workers' conversations run in the workers' threads of the one process; a   *)
(* thread can be preempted between two statements.  The statements of one     *)
(* call that read or write sys.stdout, builtins.__import__ and                *)
(* importlib.import_module, in the order of the source.                       *)

MaxPythonCalls == 2   \* run_python calls followed, all workers together

Statement(op, name) == [op |-> op, name |-> name]

run_python_statements ==
    << Statement("save", "stdout"),             \* old_out = sys.stdout
       Statement("save", "import"),             \* original_import = builtins.__import__
       Statement("save", "import_module"),      \* original_importlib_import_module = ...
       Statement("install", "stdout"),          \* sys.stdout = buf
       Statement("install", "import"),          \* builtins.__import__ = _blocked_import
       Statement("install", "import_module"),   \* importlib.import_module = _blocked_import_module
       Statement("exec", "code"),               \* exec / eval of the code, or its exception
       Statement("restore", "stdout"),          \* finally: sys.stdout = old_out
       Statement("restore", "import"),          \* builtins.__import__ = original_import
       Statement("restore", "import_module") >> \* importlib.import_module = original_...

HooksUnchanged ==
    UNCHANGED <<flow, lemmas, pc, current_lemma_id, result_summary, prep_res, exec_res,
                last_action, judged, yes_statements, verify_trace, refine_trace,
                conv, tool_context, last_tool, research, shared, path, stream, appended>>

Inside(w) == hooks.frame[w].at # 0

\* the statement worker w's call is about to execute
Current(w) == run_python_statements[hooks.frame[w].at]

Advanced(w) ==
    IF hooks.frame[w].at = Len(run_python_statements) THEN 0 ELSE hooks.frame[w].at + 1

\* a conversation of worker w calls run_python; the static check may refuse
\* the code, and the call returns before it reads an import hook
run_python_called(w) ==
    /\ ~Inside(w)
    /\ hooks.calls < MaxPythonCalls
    /\ \E refused \in BOOLEAN :
          hooks' = [hooks EXCEPT !.calls = @ + 1,
                                 !.frame[w].at = IF refused THEN 0 ELSE 1]
    /\ HooksUnchanged

\* a local of the call takes the value the process has now
saved(w) ==
    /\ Inside(w)
    /\ Current(w).op = "save"
    /\ hooks' = [hooks EXCEPT !.frame[w].saved[Current(w).name] =
                                   hooks.global[Current(w).name],
                              !.frame[w].at = Advanced(w)]
    /\ HooksUnchanged

\* the process gets this call's buffer or blocking function
installed(w) ==
    /\ Inside(w)
    /\ Current(w).op = "install"
    /\ hooks' = [hooks EXCEPT !.global[Current(w).name] = w,
                              !.frame[w].at = Advanced(w)]
    /\ HooksUnchanged

\* the code runs to its end, to an exception or to the timeout
executed(w) ==
    /\ Inside(w)
    /\ Current(w).op = "exec"
    /\ hooks' = [hooks EXCEPT !.frame[w].at = Advanced(w)]
    /\ HooksUnchanged

\* the process gets back what the call had saved; after the last statement
\* the call returns
restored(w) ==
    /\ Inside(w)
    /\ Current(w).op = "restore"
    /\ hooks' = [hooks EXCEPT !.global[Current(w).name] =
                                   hooks.frame[w].saved[Current(w).name],
                              !.frame[w].at = Advanced(w)]
    /\ HooksUnchanged

HooksStep(w) ==
    \/ run_python_called(w)
    \/ saved(w)
    \/ installed(w)
    \/ executed(w)
    \/ restored(w)

HooksNext == \E w \in Workers : HooksStep(w)

HooksSpec == Init /\ [][HooksNext]_vars

\* C36: when run_python calls of different workers have overlapped and all
\* have returned, sys.stdout, builtins.__import__ and importlib.import_module
\* are what they were before the first call.
C36_HooksRestored ==
    (\A w \in Workers : ~Inside(w)) => hooks.global = no_hooks.global

-----------------------------------------------------------------------------
(* get_result: what a retry starts from, and what it returns. *)

\* a retry has just started: attempt 2 or later is at the head of its for loop
RetryStarts ==
    /\ conv.phase = "for"
    /\ conv.iteration = 0
    /\ conv.attempt >= 2

\* C37: what the tool calls of an abandoned attempt wrote is not seen by a
\* later attempt: when a retry starts, the current lemma's statement and proof
\* and the conversation's Python environment are what they were when the
\* first attempt started.
C37_RetryStartsClean ==
    RetryStarts =>
        /\ lemmas[2].statement = refined_lemma(<<"a", "b">>).statement
        /\ lemmas[2].proof = refined_lemma(<<"a", "b">>).proof
        /\ tool_context.python_env = no_tool_context.python_env

\* C38: whenever get_result returns normally, the last message of the
\* transcript it returns is an assistant message without tool calls (the final
\* answer), never a tool message or an assistant message whose tool calls
\* are unanswered, also when an attempt used up max_iterations turns.
C38_ReturnsFinalAnswer ==
    conv.phase = "returned" =>
        /\ Len(conv.messages) > 0
        /\ conv.messages[Len(conv.messages)].role = "assistant"
        /\ Len(conv.messages[Len(conv.messages)].tool_calls) = 0

-----------------------------------------------------------------------------
(* The numbering of the lemmas in the Solver's prompt. *)

PromptLemmas == 3   \* longest pool a Solver prompt is built on by itself

\* a lemma of the pool that is not the worker's current one: verified, or
\* pending (another worker's, not yet judged)
pool_lemma(statement, status) ==
    [verified_lemma(statement, <<>>, FALSE) EXCEPT
        !.status = status,
        !.review = IF status = "verified" THEN @ ELSE None]

\* the workers of a round enter their Solver on a pool of earlier lemmas
PromptInit ==
    /\ flow = create_research_flow
    /\ \E n \in 0..PromptLemmas :
          \E status \in [1..n -> {"verified", "pending"}], statement \in [1..n -> Statements] :
             lemmas = [p \in 1..n |-> pool_lemma(statement[p], status[p])]
    /\ pc = [w \in Workers |-> [node |-> create_research_flow.start, phase |-> "prep"]]
    /\ current_lemma_id = [w \in Workers |-> None]
    /\ result_summary = [w \in Workers |-> None]
    /\ prep_res = [w \in Workers |-> <<>>]
    /\ exec_res = [w \in Workers |-> <<>>]
    /\ last_action = [w \in Workers |-> "none"]
    /\ judged = [w \in Workers |-> 0]
    /\ yes_statements = {}
    /\ verify_trace = [w \in Workers |-> <<>>]
    /\ conv = no_conversation
    /\ tool_context = no_tool_context
    /\ last_tool = None
    /\ research = no_research
    /\ refine_trace = [w \in Workers |-> None]
    /\ path = no_path
    /\ stream = no_stream
    /\ appended = [w \in Workers |-> None]
    /\ hooks = no_hooks
    /\ shared = SharedContext

\* Solver.prep with a quota that the pool has not used up (MAX_LEMMA_NUM is
\* 30 in the configuration)
PromptNext == \E w \in Workers : Solver_prep_under(w, PromptLemmas + 1)

PromptSpec == PromptInit /\ [][PromptNext]_vars

\* C39: the label under which a verified lemma is shown to the Solver is that
\* lemma's id, its index in the lemma list (the id read_lemma takes and a
\* dependency array lists), also when pending or rejected lemmas stand before
\* verified ones.
C39_LabelIsLemmaId ==
    \A w \in Workers :
        Prompted(w, "Solver") =>
            \A k \in 1..Len(prep_res[w][2]) :
                prep_res[w][2][k].label = prep_res[w][2][k].lemma_id

-----------------------------------------------------------------------------
(* Pending lemmas in one worker's own list. *)

\* C40: in a single worker's flow on its own list, whenever control is at
\* Solver.prep every lemma is verified or rejected, and at every point the
\* only lemma that may be pending is lemmas[current_lemma_id].
C40_OnlyCurrentLemmaPending ==
    /\ At("w1", "Solver", "prep") =>
          \A p \in 1..Len(lemmas) : lemmas[p].status \in {"verified", "rejected"}
    /\ \A p \in 1..Len(lemmas) :
          lemmas[p].status = "pending" => current_lemma_id["w1"] = Some(p - 1)

\* the Solver is entered again after lemma 0 was judged invalid, refined and
\* then verified
C40_Witness ==
    /\ At("w1", "Solver", "prep")
    /\ Len(lemmas) = 1
    /\ lemmas[1].status = "verified"
    /\ Len(lemmas[1].history_messages) > 3

====
